---- MODULE Spec2Model ----
(***************************************************************************)
(* Verification model of the combined-chat aggregator                      *)
(* (src/app/main.py, src/app/chat_sources/{twitch,kick,youtube}.py).       *)
(*                                                                         *)
(* Text is modelled as a sequence of one-character strings, so that the    *)
(* string operations of the code (strip, lower, replace, split, partition) *)
(* are computed, not assumed.  The fixed text of an f-string is kept as    *)
(* one element, followed by the characters of the interpolated value.      *)
(*                                                                         *)
(* Specifications:                                                         *)
(*   Spec / FairSpec  the websocket handler, the forwarder, the completion *)
(*                    task and the adapter tasks it creates;               *)
(*   AdapterSpec      one adapter object of one of the three classes: its  *)
(*                    run() fed with upstream lines, frames and responses, *)
(*                    and, for YouTube, the live chat caches across runs;  *)
(*   DedupSpec        a YouTube adapter that has been polling long enough  *)
(*                    for _seen_message_ids to have reached its bound.     *)
(*   CapSpec          _normalise_channels applied to requests that name    *)
(*                    up to MaxNamed channels per platform.                *)
(*   ProbeSpec        one call of a function of the adapters on arguments  *)
(*                    drawn from ProbeInputs.                              *)
(***************************************************************************)
EXTENDS Integers, Sequences, FiniteSets, TLC

VARIABLES
    \* ---- websocket_endpoint (src/app/main.py) ----
    init,        \* the first client message (the outcome of receive_json)
    hpc,         \* position of the handler
    chans,       \* twitch_channels / kick_channels / youtube_channels
    vidx,        \* number of channels validated so far
    clients,     \* validated adapter objects, in validation order
    errors,      \* twitch_errors / kick_errors / youtube_errors, in order
    listeners,   \* listener_tasks: one record per adapter task
    queue,       \* the shared asyncio.Queue
    stop,        \* stop_event
    fpc,         \* forward_task: "none" until created
    cpc,         \* completion_task: "none" until created
    wsSent,      \* everything send_json delivered to the client
    closeCode,   \* code given to websocket.close, 0 if none
    client,      \* the client side of the connection: "open" or "closed"
    handlerRaised, \* TRUE when the handler ended by an uncaught exception
    \* ---- one adapter object and its run() (src/app/chat_sources/*.py) ----
    focus,       \* the adapter class under study: "twitch", "kick", "youtube"
    apc,         \* position of run()
    acause,      \* what ended the loop of run(), "none" while it has not ended
    out,         \* every event run() has put on its queue, in order
    astop,       \* the stop_event the adapter was given
    reads,       \* lines / frames / poll responses consumed so far
    upRecv,      \* what was read from upstream, in order
    upSent,      \* what run() handed to the upstream connection, in order
    subscribed,  \* the local flag of KickChatClient._consume
    handle,      \* the connection run() opened: "none", "open" or "closed"
    \* ---- YouTubeChatClient and the module-level caches of youtube.py ----
    seenIds,     \* _seen_message_ids: the number k of each id "m<k>" it holds
                 \* that a poll response of the model can carry,
    seenOther,   \* and how many other ids it holds
    ytLive,      \* _live_chat_id: the number of the live chat, 0 for None
    liveCache,   \* _live_chat_cache, under the channel-id key and the handle key
    failMark,    \* _live_chat_failures under the channel-id key, -1 if absent
    liveDb,      \* the YouTubeLiveChatCache row of the handle
    now,         \* the clock (_cache_now and _utcnow advance together)
    resolved,    \* the latest resolve_live_chat_id: the id returned, where it came
                 \* from, whether that live chat had already been reported ended
    ended,       \* the live chats whose poll was answered 404 or 410
    \* ---- one call of a function studied on its own ----
    probe        \* the function, its arguments and, once called, what it returned

orchVars == <<init, hpc, chans, vidx, clients, errors, listeners, queue, stop,
              fpc, cpc, wsSent, closeCode, client, handlerRaised>>

ytVars == <<seenIds, seenOther, ytLive, liveCache, failMark, liveDb, now, resolved, ended>>

adVars == <<focus, apc, acause, out, astop, reads, upRecv, upSent, subscribed, handle,
            ytVars>>

vars == <<orchVars, adVars, probe>>

(***************************************************************************)
(* Text helpers: Python str methods on sequences of characters.            *)
(***************************************************************************)
Whitespace == {" ", "\n", "\t", "\r"}

UpperCase == <<"A","B","C","D","E","F","G","H","I","J","K","L","M",
               "N","O","P","Q","R","S","T","U","V","W","X","Y","Z">>
LowerCase == <<"a","b","c","d","e","f","g","h","i","j","k","l","m",
               "n","o","p","q","r","s","t","u","v","w","x","y","z">>

LowerChar(c) ==
    IF \E k \in 1..26 : UpperCase[k] = c
    THEN LowerCase[CHOOSE k \in 1..26 : UpperCase[k] = c]
    ELSE c

\* str.lower()
Lower(s) == [k \in 1..Len(s) |-> LowerChar(s[k])]

RECURSIVE LStripSet(_, _)
\* str.lstrip(chars)
LStripSet(s, cs) ==
    IF s # <<>> /\ Head(s) \in cs THEN LStripSet(Tail(s), cs) ELSE s

RECURSIVE RStripSet(_, _)
\* str.rstrip(chars)
RStripSet(s, cs) ==
    IF s # <<>> /\ s[Len(s)] \in cs
    THEN RStripSet(SubSeq(s, 1, Len(s) - 1), cs)
    ELSE s

\* str.strip()
Strip(s) == RStripSet(LStripSet(s, Whitespace), Whitespace)

\* s[i:] starts with pat
MatchAt(s, i, pat) ==
    /\ i + Len(pat) - 1 <= Len(s)
    /\ \A k \in 1..Len(pat) : s[i + k - 1] = pat[k]

\* str.startswith(pat)
StartsWith(s, pat) == MatchAt(s, 1, pat)

\* str.find(pat) + 1: the first position of pat in s, 0 if there is none
Find(s, pat) ==
    IF \E i \in 1..Len(s) : MatchAt(s, i, pat)
    THEN CHOOSE i \in 1..Len(s) :
            /\ MatchAt(s, i, pat)
            /\ \A j \in 1..(i - 1) : ~MatchAt(s, j, pat)
    ELSE 0

\* pat in s
Contains(s, pat) == Find(s, pat) # 0

RECURSIVE Replace(_, _, _)
\* str.replace(pat, rep): every non-overlapping occurrence, left to right
Replace(s, pat, rep) ==
    LET i == Find(s, pat) IN
    IF i = 0 THEN s
    ELSE SubSeq(s, 1, i - 1) \o rep
         \o Replace(SubSeq(s, i + Len(pat), Len(s)), pat, rep)

RECURSIVE Split(_, _)
\* str.split(sep): the list of pieces (one piece when sep does not occur)
Split(s, sep) ==
    LET i == Find(s, sep) IN
    IF i = 0 THEN <<s>>
    ELSE <<SubSeq(s, 1, i - 1)>> \o Split(SubSeq(s, i + Len(sep), Len(s)), sep)

\* str.split(sep, 1)[0]
SplitFirst(s, sep) ==
    LET i == Find(s, sep) IN IF i = 0 THEN s ELSE SubSeq(s, 1, i - 1)

\* str.partition(sep): <<head, sep-or-empty, tail>>
Partition(s, sep) ==
    LET i == Find(s, sep) IN
    IF i = 0 THEN <<s, <<>>, <<>>>>
    ELSE <<SubSeq(s, 1, i - 1), sep, SubSeq(s, i + Len(sep), Len(s))>>

\* the elements of a sequence
Range(f) == {f[k] : k \in DOMAIN f}

(***************************************************************************)
(* Channel normalisation.                                                  *)
(***************************************************************************)
\* the cap of _normalise_channels: `if len(cleaned) >= 10: break`
MaxChannels == 10

\* a list element that is None
NoneItem == <<"<None>">>

\* raw_items of _normalise_channels: the stripped pieces of a string, the
\* stripped string elements of a list, nothing for None or another type
RawItems(value) ==
    CASE value.kind = "str" ->
            LET pieces == Split(Replace(value.text, <<"\n">>, <<",">>), <<",">>)
            IN  [k \in 1..Len(pieces) |-> Strip(pieces[k])]
      [] value.kind = "list" ->
            LET kept == SelectSeq(value.items, LAMBDA it : it # NoneItem)
            IN  [k \in 1..Len(kept) |-> Strip(kept[k])]
      [] OTHER -> <<>>

RECURSIVE CleanLoop(_, _, _)
\* the `for item in raw_items` loop of _normalise_channels
CleanLoop(raw, seen, cleaned) ==
    IF raw = <<>> THEN cleaned
    ELSE LET item == Head(raw)
             normalised == Strip(LStripSet(item, {"#"}))
             key == Lower(normalised)
         IN  IF item = <<>> \/ normalised = <<>> \/ key \in seen
             THEN CleanLoop(Tail(raw), seen, cleaned)
             ELSE IF Len(cleaned) + 1 >= MaxChannels
                  THEN Append(cleaned, normalised)
                  ELSE CleanLoop(Tail(raw), seen \cup {key},
                                 Append(cleaned, normalised))

\* _normalise_channels(value)
NormaliseChannels(value) == CleanLoop(RawItems(value), {}, <<>>)

UrlHttpsWww == <<"h","t","t","p","s",":","/","/","w","w","w",".","y","o","u","t","u","b","e",".","c","o","m","/">>
UrlHttpWww == <<"h","t","t","p",":","/","/","w","w","w",".","y","o","u","t","u","b","e",".","c","o","m","/">>
UrlHttps == <<"h","t","t","p","s",":","/","/","y","o","u","t","u","b","e",".","c","o","m","/">>
UrlHttp == <<"h","t","t","p",":","/","/","y","o","u","t","u","b","e",".","c","o","m","/">>
UrlWww == <<"w","w","w",".","y","o","u","t","u","b","e",".","c","o","m","/">>
UrlBare == <<"y","o","u","t","u","b","e",".","c","o","m","/">>
PathChannel == <<"c","h","a","n","n","e","l","/">>
PathC == <<"c","/">>
PathUser == <<"u","s","e","r","/">>

RECURSIVE RemoveAll(_, _)
\* the chain of slug.replace(prefix, "") calls, in the order given
RemoveAll(s, pats) ==
    IF pats = <<>> THEN s
    ELSE RemoveAll(Replace(s, Head(pats), <<>>), Tail(pats))

\* normalise_channel_slug(value)
NormaliseChannelSlug(value) ==
    LET s0 == Strip(value)
        s1 == RemoveAll(s0, <<UrlHttpsWww, UrlHttpWww, UrlHttps, UrlHttp,
                              UrlWww, UrlBare, PathChannel, PathC, PathUser>>)
        s2 == SplitFirst(SplitFirst(s1, <<"?">>), <<"#">>)
        s3 == IF Contains(s2, <<"/">>) THEN SplitFirst(s2, <<"/">>) ELSE s2
        s4 == Strip(s3)
    IN  IF s0 = <<>> THEN <<>>
        ELSE IF ~StartsWith(s4, <<"@">>) THEN <<>>
        ELSE Lower(s4)

(***************************************************************************)
(* The first client message.                                               *)
(***************************************************************************)
NoValue == [kind |-> "none"]
StrValue(t) == [kind |-> "str", text |-> t]
ListValue(l) == [kind |-> "list", items |-> l]

\* a subscribe payload: init.get("twitch"), init.get("kick"), init.get("youtube")
Subscribe(t, k, y) ==
    [received |-> TRUE, action |-> "subscribe", twitch |-> t, kick |-> k, youtube |-> y]

\* the first messages the model draws from
InitMessages ==
    { \* receive_json raised: no decodable first message
      [received |-> FALSE],
      \* the client sends nothing at all: receive_json waits
      [received |-> FALSE, silent |-> TRUE],
      \* valid JSON that is no object, such as [1]: receive_json returns a list
      [received |-> TRUE, nodict |-> TRUE],
      \* a JSON object whose action is not "subscribe"
      [received |-> TRUE, action |-> "ping", twitch |-> NoValue, kick |-> NoValue,
       youtube |-> NoValue],
      \* a subscribe request that names nothing
      Subscribe(NoValue, StrValue(<<" ", ",", "#">>), ListValue(<<NoneItem>>)),
      \* "#Abc,abc": the same channel twice
      Subscribe(StrValue(<<"#","A","b","c",",","a","b","c">>), NoValue, NoValue),
      Subscribe(ListValue(<<<<"a","b","c">>>>), ListValue(<<<<"x","_","y">>>>), NoValue),
      \* a handle and a URL of the same handle
      Subscribe(NoValue, NoValue,
                ListValue(<< <<"@","a","b","c">>,
                             <<"y","o","u","t","u","b","e",".","c","o","m","/","@","a","b","c">> >>)),
      \* a name without "@" is no handle
      Subscribe(NoValue, NoValue, ListValue(<< <<"a","b","c">> >>)),
      Subscribe(ListValue(<<<<"a","b","c">>>>), NoValue, ListValue(<< <<"@","A","b","c">> >>)) }

\* twitch_channels, kick_channels and youtube_channels of each first message: the
\* three _normalise_channels calls, computed once per message
NormalisedChannels ==
    [m \in {x \in InitMessages : x.received /\ "action" \in DOMAIN x} |->
        [twitch |-> NormaliseChannels(m.twitch),
         kick |-> NormaliseChannels(m.kick),
         youtube |-> NormaliseChannels(m.youtube)]]

\* the names a first message can hand to YouTubeChatClient
YouTubeNames ==
    UNION {Range(NormalisedChannels[m].youtube) : m \in DOMAIN NormalisedChannels}

\* YouTubeChatClient.channel for each such name: normalise_channel_slug(channel),
\* computed once per name
ChannelSlug == [c \in YouTubeNames |-> NormaliseChannelSlug(c)]

\* the (platform, channel) pairs in the order the three validation loops visit them
Flatten(ch) ==
    [k \in 1..Len(ch.twitch) |-> <<"twitch", ch.twitch[k]>>]
    \o [k \in 1..Len(ch.kick) |-> <<"kick", ch.kick[k]>>]
    \o [k \in 1..Len(ch.youtube) |-> <<"youtube", ch.youtube[k]>>]

\* self.channel as set by the constructor of each adapter
AdapterChannel(platform, channel) ==
    IF platform = "youtube" THEN ChannelSlug[channel] ELSE Lower(channel)

(***************************************************************************)
(* Events: the dicts the adapters put on the queue and the handler sends.  *)
(***************************************************************************)
\* the events TwitchChatClient.run enqueues (they carry no "channel" key)
TwitchEvent(type, text, arg) ==
    [platform |-> "twitch", type |-> type, message |-> <<text>> \o arg]

\* the status and error events of KickChatClient and YouTubeChatClient
ChannelEvent(platform, channel, type, text, arg) ==
    [platform |-> platform, channel |-> channel, type |-> type,
     message |-> <<text>> \o arg]

\* the error dict websocket_endpoint sends for a channel that failed validation
ValidationError(platform, channel, message) ==
    [platform |-> platform, channel |-> channel, type |-> "error", message |-> message]

\* str(exc) of the RuntimeError ensure_channel_exists raises
NotFoundMessage(platform, channel) ==
    CASE platform = "twitch" -> <<"Twitch channel not found: ">> \o Lower(channel)
      [] platform = "kick" ->
            <<"Kick channel not found: ">> \o Replace(Lower(channel), <<"_">>, <<"-">>)
      [] OTHER -> <<"YouTube channel not found: ">> \o AdapterChannel(platform, channel)

\* what ensure_channel_exists can do for one channel: return ("ok"), raise
\* RuntimeError ("notfound"), or raise another exception from the lookup call
\* ("exc": httpx timeout or connection error).  A YouTube name that is no handle
\* is never looked up: _resolve_channel_metadata_with_client returns None.
ValidationOutcomes(platform, channel) ==
    IF platform = "youtube" /\ AdapterChannel(platform, channel) = <<>>
    THEN {"notfound"}
    ELSE {"ok", "notfound", "exc"}

(***************************************************************************)
(* How an adapter's run() ends.  cause is what ends it:                    *)
(*   "closed"     end of stream (Twitch) / ConnectionClosed (Kick)         *)
(*   "exception"  an unexpected exception inside run()                     *)
(*   "quota"      HTTP 403 from the poll (YouTube)                         *)
(*   "gone"       HTTP 404 or 410 from the poll (YouTube)                  *)
(*   "stop"       the loop condition saw stop_event set                    *)
(*   "cancel"     task.cancel(): CancelledError at the current await       *)
(***************************************************************************)
\* mutant of TwitchExit: run() without its `except Exception` clause
TwitchExitNoExcept(channel, cause) ==
    <<TwitchEvent("status", "Disconnected from Twitch chat for ", channel)>>

\* what TwitchChatClient.run enqueues from the point cause strikes to its end:
\* the except clause (error) for an exception, then finally (status)
TwitchExit(channel, cause) ==
    (IF cause = "exception"
     THEN <<TwitchEvent("error", "Twitch connection failed: ", <<>>)>>
     ELSE <<>>)
    \o <<TwitchEvent("status", "Disconnected from Twitch chat for ", channel)>>

\* the same for the websocket part of KickChatClient.run: ConnectionClosed is
\* only logged, another exception becomes an error event, finally adds the status
KickExit(channel, cause) ==
    (IF cause = "exception"
     THEN <<ChannelEvent("kick", channel, "error", "Kick connection failed: ", <<>>)>>
     ELSE <<>>)
    \o <<ChannelEvent("kick", channel, "status", "Disconnected from Kick chat for ", channel)>>

\* mutant of YouTubeExit: the 403 branch breaks without putting its error event
YouTubeExitQuotaSilent(channel, cause) ==
    (IF cause = "gone"
     THEN <<ChannelEvent("youtube", channel, "status", "YouTube live chat ended", <<>>)>>
     ELSE <<>>)
    \o <<ChannelEvent("youtube", channel, "status", "Disconnected from YouTube chat for ",
                      channel)>>

\* the same for the poll loop of YouTubeChatClient.run: 403 and 404/410 enqueue
\* their event and break; there is no except clause for other exceptions; finally
\* adds the status
YouTubeExit(channel, cause) ==
    (CASE cause = "quota" ->
            <<ChannelEvent("youtube", channel, "error",
                           "YouTube API quota exceeded or access denied", <<>>)>>
       [] cause = "gone" ->
            <<ChannelEvent("youtube", channel, "status", "YouTube live chat ended", <<>>)>>
       [] OTHER -> <<>>)
    \o <<ChannelEvent("youtube", channel, "status", "Disconnected from YouTube chat for ",
                      channel)>>

ExitEvents(platform, channel, cause) ==
    CASE platform = "twitch" -> TwitchExit(channel, cause)
      [] platform = "kick" -> KickExit(channel, cause)
      [] OTHER -> YouTubeExit(channel, cause)

\* the state of the task after run() ended by cause: run() returns ("done"),
\* lets the exception out ("raised") or is cancelled ("cancelled")
ExitState(platform, cause) ==
    CASE cause = "cancel" -> "cancelled"
      [] cause = "exception" /\ platform = "youtube" -> "raised"
      [] OTHER -> "done"

\* the first status event of run()
ConnectedEvent(platform, channel) ==
    CASE platform = "twitch" ->
            TwitchEvent("status", "Connected to Twitch chat for ", channel)
      [] platform = "kick" ->
            ChannelEvent("kick", channel, "status", "Connected to Kick chat for ", channel)
      [] OTHER ->
            ChannelEvent("youtube", channel, "status", "Connected to YouTube chat for ",
                         channel)

\* the n-th chat event of an adapter, as the parsers build it
ChatEvent(platform, channel, n) ==
    IF platform = "twitch"
    THEN [platform |-> "twitch", type |-> "chat", user |-> <<"u">>,
          message |-> [k \in 1..n |-> "x"]]
    ELSE [platform |-> platform, type |-> "chat", user |-> <<"u">>,
          message |-> [k \in 1..n |-> "x"], channel |-> channel]

\* what the environment can end a running adapter with
EndCauses(platform) ==
    IF platform = "youtube" THEN {"quota", "gone", "exception"}
    ELSE {"closed", "exception"}

(***************************************************************************)
(* websocket_endpoint, _forward_messages, _complete_on_listeners.          *)
(***************************************************************************)
\* chat events one adapter task may enqueue in the model
MaxChat == 1

Finished == {"done", "raised", "cancelled"}

\* mutant of AllListenersDone: the completion task stops waiting at the first
\* adapter that ends (asyncio.wait with FIRST_COMPLETED instead of gather)
AnyListenerDone(ls) == \E k \in DOMAIN ls : ls[k].st \in Finished

\* asyncio.gather(*tasks) of _complete_on_listeners has returned: every task ended
AllListenersDone(ls) == \A k \in DOMAIN ls : ls[k].st \in Finished

\* mutant of QueueFull: the queue was created with asyncio.Queue(maxsize=2)
QueueFullAtTwo(q) == Len(q) >= 2

\* queue.full(): `asyncio.Queue()` has no maxsize, so put() never has to wait
QueueFull(q) == FALSE

\* no cache entry, no row
NoEntry == [id |-> 0, exp |-> 0]

\* the value of the clock in the first state
ClockStart == 1000

\* a fresh process with an empty database: nothing cached, nothing seen
YtFresh ==
    /\ seenIds = {}
    /\ seenOther = 0
    /\ ytLive = 0
    /\ liveCache = [k \in {"cid", "handle"} |-> NoEntry]
    /\ failMark = -1
    /\ liveDb = NoEntry
    /\ now = ClockStart
    /\ resolved = [src |-> "none", id |-> 0, stale |-> FALSE]
    /\ ended = {}

\* no adapter object is under study
AdIdle ==
    /\ YtFresh
    /\ focus = "none"
    /\ apc = "idle"
    /\ acause = "none"
    /\ out = <<>>
    /\ astop = FALSE
    /\ reads = 0
    /\ upRecv = <<>>
    /\ upSent = <<>>
    /\ subscribed = FALSE
    /\ handle = "none"

\* no websocket request is being handled
OrchIdle ==
    /\ init = [received |-> FALSE]
    /\ hpc = "done"
    /\ chans = [twitch |-> <<>>, kick |-> <<>>, youtube |-> <<>>]
    /\ vidx = 0
    /\ clients = <<>>
    /\ errors = <<>>
    /\ listeners = <<>>
    /\ queue = <<>>
    /\ stop = FALSE
    /\ fpc = "none"
    /\ cpc = "none"
    /\ wsSent = <<>>
    /\ closeCode = 0
    /\ client = "open"
    /\ handlerRaised = FALSE

OrchInit ==
    /\ probe = [fn |-> "none"]
    /\ AdIdle
    /\ init \in InitMessages
    /\ hpc = "receive"
    /\ chans = [twitch |-> <<>>, kick |-> <<>>, youtube |-> <<>>]
    /\ vidx = 0
    /\ clients = <<>>
    /\ errors = <<>>
    /\ listeners = <<>>
    /\ queue = <<>>
    /\ stop = FALSE
    /\ fpc = "none"
    /\ cpc = "none"
    /\ wsSent = <<>>
    /\ closeCode = 0
    /\ client = "open"
    /\ handlerRaised = FALSE

\* the finally clause when no task was created: stop_event.set(), nothing to gather
ReturnEarly ==
    /\ stop' = TRUE
    /\ hpc' = "done"

\* receive_json, the action check, _normalise_channels x3, the empty check
ReceiveInit ==
    /\ UNCHANGED <<adVars, probe>>
    /\ hpc = "receive"
    \* `await websocket.receive_json()` has no timeout: from a client that sends
    \* nothing it returns (by raising) only once the client has disconnected
    /\ "silent" \in DOMAIN init => client = "closed"
    /\ UNCHANGED <<init, vidx, clients, errors, listeners, queue, fpc, cpc, client>>
    /\ IF ~init.received \/ client = "closed"
       THEN /\ closeCode' = 4000
            /\ ReturnEarly
            /\ UNCHANGED <<chans, wsSent, handlerRaised>>
       ELSE IF "nodict" \in DOMAIN init
       THEN \* init.get raises AttributeError: only `except WebSocketDisconnect`
            \* and finally are left
            /\ handlerRaised' = TRUE
            /\ ReturnEarly
            /\ UNCHANGED <<chans, wsSent, closeCode>>
       ELSE IF init.action # "subscribe"
       THEN /\ wsSent' = Append(wsSent, [type |-> "error",
                                         message |-> <<"Expected subscribe action">>])
            /\ closeCode' = 4001
            /\ ReturnEarly
            /\ UNCHANGED <<chans, handlerRaised>>
       ELSE LET ch == NormalisedChannels[init]
            IN  IF Flatten(ch) = <<>>
                THEN /\ wsSent' = Append(wsSent,
                            [type |-> "error",
                             message |-> <<"Please provide at least one streamer name">>])
                     /\ closeCode' = 4002
                     /\ ReturnEarly
                     /\ UNCHANGED <<chans, handlerRaised>>
                ELSE /\ chans' = ch
                     /\ hpc' = "validate"
                     /\ UNCHANGED <<wsSent, closeCode, stop, handlerRaised>>

\* one iteration of the three `for channel in ..._channels` validation loops
ValidateNext ==
    /\ UNCHANGED <<adVars, probe>>
    /\ hpc = "validate"
    /\ vidx < Len(Flatten(chans))
    /\ LET platform == Flatten(chans)[vidx + 1][1]
           channel == Flatten(chans)[vidx + 1][2]
       IN  \E outcome \in ValidationOutcomes(platform, channel) :
            /\ vidx' = vidx + 1
            /\ CASE outcome = "ok" ->
                     /\ clients' = Append(clients,
                            [platform |-> platform,
                             channel |-> AdapterChannel(platform, channel)])
                     /\ UNCHANGED <<errors, hpc, stop, handlerRaised>>
                 [] outcome = "notfound" ->
                     /\ errors' = Append(errors,
                            ValidationError(platform, channel,
                                            NotFoundMessage(platform, channel)))
                     /\ UNCHANGED <<clients, hpc, stop, handlerRaised>>
                 [] OTHER ->
                     \* not a RuntimeError: only `except WebSocketDisconnect` and
                     \* finally are left
                     /\ handlerRaised' = TRUE
                     /\ ReturnEarly
                     /\ UNCHANGED <<clients, errors>>
    /\ UNCHANGED <<init, chans, listeners, queue, fpc, cpc, wsSent, closeCode, client>>

\* the three error-report loops, the no-valid-channel check, the create_task calls
ReportAndSpawn ==
    /\ UNCHANGED <<adVars, probe>>
    /\ hpc = "validate"
    /\ vidx = Len(Flatten(chans))
    /\ UNCHANGED <<init, chans, vidx, clients, errors, queue, client, handlerRaised>>
    /\ IF errors # <<>> /\ client = "closed"
       THEN \* send_json raises: WebSocketDisconnect is caught, finally runs
            /\ ReturnEarly
            /\ UNCHANGED <<wsSent, closeCode, listeners, fpc, cpc>>
       ELSE /\ wsSent' = wsSent \o errors
            /\ IF clients = <<>>
               THEN /\ closeCode' = 4405
                    /\ ReturnEarly
                    /\ UNCHANGED <<listeners, fpc, cpc>>
               ELSE /\ listeners' = [k \in 1..Len(clients) |->
                                       [platform |-> clients[k].platform,
                                        channel |-> clients[k].channel,
                                        st |-> "starting", chats |-> 0]]
                    /\ fpc' = "loop"
                    /\ cpc' = "waiting"
                    /\ hpc' = "await"
                    /\ UNCHANGED <<closeCode, stop>>

\* run() reaches its first status event
AdapterStart(i) ==
    /\ UNCHANGED <<adVars, probe>>
    /\ i \in DOMAIN listeners
    /\ listeners[i].st = "starting"
    /\ ~QueueFull(queue)
    /\ listeners' = [listeners EXCEPT ![i].st = "running"]
    /\ queue' = Append(queue, ConnectedEvent(listeners[i].platform, listeners[i].channel))
    /\ UNCHANGED <<init, hpc, chans, vidx, clients, errors, stop, fpc, cpc, wsSent,
                   closeCode, client, handlerRaised>>

\* the read/poll loop parses a chat message and enqueues it
AdapterEmit(i) ==
    /\ UNCHANGED <<adVars, probe>>
    /\ i \in DOMAIN listeners
    /\ listeners[i].st = "running"
    /\ listeners[i].chats < MaxChat
    /\ ~QueueFull(queue)
    /\ listeners' = [listeners EXCEPT ![i].chats = @ + 1]
    /\ queue' = Append(queue, ChatEvent(listeners[i].platform, listeners[i].channel,
                                        listeners[i].chats + 1))
    /\ UNCHANGED <<init, hpc, chans, vidx, clients, errors, stop, fpc, cpc, wsSent,
                   closeCode, client, handlerRaised>>

\* run() ends on its own: upstream closed, a terminal poll status, an exception
\* (YouTube enqueues its first status before anything can fail)
AdapterEnd(i) ==
    /\ UNCHANGED <<adVars, probe>>
    /\ i \in DOMAIN listeners
    /\ listeners[i].st \in
         (IF listeners[i].platform = "youtube" THEN {"running"} ELSE {"starting", "running"})
    /\ ~QueueFull(queue)
    /\ \E cause \in EndCauses(listeners[i].platform) :
         /\ queue' = queue \o ExitEvents(listeners[i].platform, listeners[i].channel, cause)
         /\ listeners' = [listeners EXCEPT ![i].st = ExitState(listeners[i].platform, cause)]
    /\ UNCHANGED <<init, hpc, chans, vidx, clients, errors, stop, fpc, cpc, wsSent,
                   closeCode, client, handlerRaised>>

\* run() after task.cancel(): the finally clause, then the task is cancelled
AdapterCancelled(i) ==
    /\ UNCHANGED <<adVars, probe>>
    /\ i \in DOMAIN listeners
    /\ listeners[i].st = "cancelling"
    /\ ~QueueFull(queue)
    /\ queue' = queue \o ExitEvents(listeners[i].platform, listeners[i].channel, "cancel")
    /\ listeners' = [listeners EXCEPT ![i].st = ExitState(listeners[i].platform, "cancel")]
    /\ UNCHANGED <<init, hpc, chans, vidx, clients, errors, stop, fpc, cpc, wsSent,
                   closeCode, client, handlerRaised>>

\* mutant of FwdExit: `if stop_event.is_set(): break`, whatever the queue holds
FwdExitOnStop ==
    /\ UNCHANGED <<adVars, probe>>
    /\ fpc = "loop"
    /\ stop
    /\ fpc' = "done"
    /\ UNCHANGED <<init, hpc, chans, vidx, clients, errors, listeners, queue, stop, cpc,
                   wsSent, closeCode, client, handlerRaised>>

\* _forward_messages: `if stop_event.is_set() and queue.empty(): break`
FwdExit ==
    /\ UNCHANGED <<adVars, probe>>
    /\ fpc = "loop"
    /\ stop
    /\ queue = <<>>
    /\ fpc' = "done"
    /\ UNCHANGED <<init, hpc, chans, vidx, clients, errors, listeners, queue, stop, cpc,
                   wsSent, closeCode, client, handlerRaised>>

\* mutant of FwdSend: the queue hands out its newest item first (a LifoQueue)
FwdSendNewest ==
    /\ UNCHANGED <<adVars, probe>>
    /\ fpc = "loop"
    /\ queue # <<>>
    /\ queue' = SubSeq(queue, 1, Len(queue) - 1)
    /\ IF client = "open"
       THEN /\ wsSent' = Append(wsSent, queue[Len(queue)])
            /\ UNCHANGED fpc
       ELSE /\ fpc' \in {"disconnected", "done"}
            /\ UNCHANGED wsSent
    /\ UNCHANGED <<init, hpc, chans, vidx, clients, errors, listeners, stop, cpc,
                   closeCode, client, handlerRaised>>

\* _forward_messages: queue.get() returns an item and send_json is called.  To a
\* closed client it raises: WebSocketDisconnect is re-raised, another exception
\* is logged and breaks the loop.
FwdSend ==
    /\ UNCHANGED <<adVars, probe>>
    /\ fpc = "loop"
    /\ queue # <<>>
    /\ queue' = Tail(queue)
    /\ IF client = "open"
       THEN /\ wsSent' = Append(wsSent, Head(queue))
            /\ UNCHANGED fpc
       ELSE /\ fpc' \in {"disconnected", "done"}
            /\ UNCHANGED wsSent
    /\ UNCHANGED <<init, hpc, chans, vidx, clients, errors, listeners, stop, cpc,
                   closeCode, client, handlerRaised>>

\* _forward_messages: wait_for(queue.get(), 1.0) times out and the loop continues
FwdTimeout ==
    /\ UNCHANGED <<adVars, probe>>
    /\ fpc = "loop"
    /\ queue = <<>>
    /\ ~stop
    /\ UNCHANGED <<orchVars, probe>>

\* mutant of CompletionDone: stop_event.set() without awaiting gather(*tasks)
CompletionDoneAtOnce ==
    /\ UNCHANGED <<adVars, probe>>
    /\ cpc = "waiting"
    /\ stop' = TRUE
    /\ cpc' = "done"
    /\ UNCHANGED <<init, hpc, chans, vidx, clients, errors, listeners, queue, fpc,
                   wsSent, closeCode, client, handlerRaised>>

\* _complete_on_listeners: gather returned, stop_event.set()
CompletionDone ==
    /\ UNCHANGED <<adVars, probe>>
    /\ cpc = "waiting"
    /\ AllListenersDone(listeners)
    /\ stop' = TRUE
    /\ cpc' = "done"
    /\ UNCHANGED <<init, hpc, chans, vidx, clients, errors, listeners, queue, fpc,
                   wsSent, closeCode, client, handlerRaised>>

\* `await forward_task` returns or raises WebSocketDisconnect; the finally clause
\* sets stop_event and cancels every task that is not done
HandlerFinally ==
    /\ UNCHANGED <<adVars, probe>>
    /\ hpc = "await"
    /\ fpc \in {"done", "disconnected"}
    /\ stop' = TRUE
    /\ listeners' = [k \in DOMAIN listeners |->
                        IF listeners[k].st \in Finished THEN listeners[k]
                        ELSE [listeners[k] EXCEPT !.st = "cancelling"]]
    /\ cpc' = IF cpc = "waiting" THEN "cancelled" ELSE cpc
    /\ hpc' = "gather"
    /\ UNCHANGED <<init, chans, vidx, clients, errors, queue, fpc, wsSent, closeCode,
                   client, handlerRaised>>

\* mutant of GatherDone: the finally clause ends after the cancel() calls, without
\* awaiting gather(*all_tasks)
GatherSkipped ==
    /\ UNCHANGED <<adVars, probe>>
    /\ hpc = "gather"
    /\ hpc' = "done"
    /\ UNCHANGED <<init, chans, vidx, clients, errors, listeners, queue, stop, fpc, cpc,
                   wsSent, closeCode, client, handlerRaised>>

\* `await asyncio.gather(*all_tasks, return_exceptions=True)` returns
GatherDone ==
    /\ UNCHANGED <<adVars, probe>>
    /\ hpc = "gather"
    /\ \A k \in DOMAIN listeners : listeners[k].st \in Finished
    /\ hpc' = "done"
    /\ UNCHANGED <<init, chans, vidx, clients, errors, listeners, queue, stop, fpc, cpc,
                   wsSent, closeCode, client, handlerRaised>>

\* the client closes its side of the connection
ClientClose ==
    /\ UNCHANGED <<adVars, probe>>
    /\ client = "open"
    /\ hpc # "done"
    /\ client' = "closed"
    /\ UNCHANGED <<init, hpc, chans, vidx, clients, errors, listeners, queue, stop, fpc,
                   cpc, wsSent, closeCode, handlerRaised>>

\* bound on the number of adapter tasks of one request in the model's inputs
MaxListeners == 2

Init == OrchInit

Next ==
    \/ ReceiveInit
    \/ ValidateNext
    \/ ReportAndSpawn
    \/ \E i \in 1..MaxListeners : AdapterStart(i)
    \/ \E i \in 1..MaxListeners : AdapterEmit(i)
    \/ \E i \in 1..MaxListeners : AdapterEnd(i)
    \/ \E i \in 1..MaxListeners : AdapterCancelled(i)
    \/ FwdExit
    \/ FwdSend
    \/ FwdTimeout
    \/ CompletionDone
    \/ HandlerFinally
    \/ GatherDone
    \/ ClientClose

Spec == Init /\ [][Next]_vars

\* a step of the handler, the forwarder, the completion task, a starting adapter
\* or a cancelled adapter
Progress ==
    \/ ReceiveInit
    \/ ValidateNext
    \/ ReportAndSpawn
    \/ \E i \in 1..MaxListeners : AdapterStart(i)
    \/ \E i \in 1..MaxListeners : AdapterCancelled(i)
    \/ FwdExit
    \/ FwdSend
    \/ CompletionDone
    \/ HandlerFinally
    \/ GatherDone

\* The event loop runs every task that is ready: the handler, the forwarder, the
\* completion task, an adapter on its way to its first status event and a cancelled
\* adapter make progress.  What upstream sends afterwards (AdapterEmit, AdapterEnd)
\* and what the client does is not promised.
\* Every step but FwdTimeout moves a task forward for good, so a behaviour can only
\* end by stuttering, and weak fairness of the disjunction then says the same as
\* weak fairness of each step: it ends where none of them is enabled.
Fairness == WF_vars(Progress)

FairSpec == Spec /\ Fairness

(***************************************************************************)
(* Claims about the session orchestrator.                                  *)
(***************************************************************************)
\* the status texts with which a run() ends
TerminalStatusTexts ==
    {"Disconnected from Twitch chat for ", "Disconnected from Kick chat for ",
     "Disconnected from YouTube chat for ", "YouTube live chat ended",
     "Stopped listening to "}

\* the channel the client can read off an event: its "channel" key, or the name
\* interpolated into its message when it has none
EventChannel(e) == IF "channel" \in DOMAIN e THEN e.channel ELSE Tail(e.message)

\* e is an error, or a terminal status, of channel `channel` of `platform`
TerminalFor(e, platform, channel) ==
    /\ "platform" \in DOMAIN e
    /\ e.platform = platform
    /\ \/ e.type = "error"
       \/ e.type = "status" /\ Head(e.message) \in TerminalStatusTexts
    /\ EventChannel(e) \in {channel, AdapterChannel(platform, channel)}

\* the handler has returned from a subscribe request that named a channel, with
\* the client connected all along
AcceptedSessionOver ==
    /\ hpc = "done"
    /\ client = "open"
    /\ Flatten(chans) # <<>>

\* C1: for every channel named in an accepted subscribe request, while the client
\* stays connected, the client has received an error or terminal status event for
\* that channel by the time the session is over.
C1_TerminalEventPerChannel ==
    AcceptedSessionOver =>
        \A k \in DOMAIN Flatten(chans) :
            \E j \in DOMAIN wsSent :
                TerminalFor(wsSent[j], Flatten(chans)[k][1], Flatten(chans)[k][2])

\* C2: an adapter task that ends leaves the stop signal and every sibling task as
\* they are, and the completion task sets the stop signal only when every adapter
\* task of the session has finished.
C2_AdapterEndIsIsolated ==
    [][ /\ \A i \in DOMAIN listeners :
              ( /\ listeners[i].st \in {"starting", "running"}
                /\ listeners'[i].st \in {"done", "raised"} )
              => /\ stop' = stop
                 /\ \A j \in DOMAIN listeners \ {i} : listeners'[j] = listeners[j]
        /\ (cpc = "waiting" /\ cpc' = "done")
              => \A k \in DOMAIN listeners : listeners[k].st \in Finished
        /\ (~stop /\ stop' /\ hpc' = hpc)
              => /\ cpc = "waiting" /\ cpc' = "done"
                 /\ \A k \in DOMAIN listeners : listeners[k].st \in Finished
      ]_vars

\* C2 witness: one adapter task has ended while a sibling is still running and the
\* stop signal is not set.
C2_Witness ==
    \E i, j \in DOMAIN listeners :
        /\ listeners[i].st \in {"done", "raised"}
        /\ listeners[j].st = "running"
        /\ ~stop
        /\ cpc = "waiting"

\* C4: the number of adapter tasks spawned equals the number of distinct valid
\* (platform, canonical channel) pairs: no pair has two tasks.
C4_OneTaskPerDistinctPair ==
    hpc \in {"await", "gather", "done"} =>
        Len(listeners) =
            Cardinality({<<listeners[k].platform, listeners[k].channel>> :
                            k \in DOMAIN listeners})

\* C10: whenever the client connection closes while adapters are running, the stop
\* signal is eventually set and every adapter stops, whether or not an adapter
\* enqueues another event.
C10_CloseLeadsToStop ==
    (client = "closed" /\ \E k \in DOMAIN listeners : listeners[k].st = "running")
        ~> (stop /\ AllListenersDone(listeners))

\* C11: with the client connected, the forwarder leaves its loop only when the
\* stop signal is set and the queue is empty, every item it takes off the queue
\* after the signal is sent to the client, and once the signal is set the
\* forwarder always terminates: it does not stay in its loop.
C11_ForwarderDrainsThenExits ==
    /\ [][ /\ (fpc = "loop" /\ fpc' = "done" /\ client = "open")
                 => (stop /\ queue = <<>>)
           /\ (stop /\ fpc = "loop" /\ client = "open" /\ Len(queue') < Len(queue))
                 => wsSent' = Append(wsSent, Head(queue))
         ]_vars
    /\ (stop /\ fpc = "loop") ~> (fpc # "loop")

\* C11 witness: the completion task has set the stop signal, the forwarder has
\* sent the last terminal status to the connected client and has terminated with
\* the queue empty, while the handler has not yet run its finally clause.
C11_Witness ==
    /\ stop /\ cpc = "done" /\ hpc = "await"
    /\ fpc = "done"
    /\ client = "open"
    /\ queue = <<>>
    /\ wsSent # <<>>
    /\ wsSent[Len(wsSent)].type = "status"
    /\ Head(wsSent[Len(wsSent)].message) \in TerminalStatusTexts

\* C12: when the client sends no first message, the handler always ends the
\* connection with a closure code: it does not wait for the request for ever.
C12_SilentClientIsAborted ==
    ("silent" \in DOMAIN init /\ hpc = "receive") ~> (hpc = "done" /\ closeCode # 0)

\* the place of an event in the order in which one run() enqueues its events: the
\* first status, the chat events in turn, then an error or the "ended" status,
\* then the last status
EnqueueRank(e) ==
    CASE e.type = "chat" -> Len(e.message)
      [] e.type = "error" -> MaxChat + 1
      [] e.type = "status" /\ Head(e.message) = "YouTube live chat ended" -> MaxChat + 1
      [] e.type = "status" /\ Head(e.message) \in TerminalStatusTexts -> MaxChat + 2
      [] OTHER -> 0

\* the positions of wsSent that hold an event enqueued by adapter task k (the
\* events before them were sent by the handler itself)
SentBy(k) ==
    {j \in DOMAIN wsSent :
        /\ j > Len(errors)
        /\ "platform" \in DOMAIN wsSent[j]
        /\ wsSent[j].platform = listeners[k].platform
        /\ wsSent[j].platform # "twitch" => wsSent[j].channel = listeners[k].channel}

\* no other adapter task of the session has the platform and channel of task k
OnlyTaskOfItsChannel(k) ==
    \A m \in DOMAIN listeners \ {k} :
        <<listeners[m].platform, listeners[m].channel>> #
            <<listeners[k].platform, listeners[k].channel>>

\* C13: the forwarder sends exactly what it takes off the queue, in that order:
\* whenever the sequence sent to the client grows, it grows by the head of the
\* queue, which is removed; the queue otherwise only grows at its tail; and the
\* events of one adapter reach the client in the order the adapter enqueued them,
\* none of them twice.
C13_ForwardedInEnqueueOrder ==
    /\ [][ fpc = "loop" =>
             /\ wsSent' # wsSent =>
                    /\ queue # <<>>
                    /\ wsSent' = Append(wsSent, Head(queue))
                    /\ queue' = Tail(queue)
             /\ queue' # queue =>
                    \/ queue # <<>> /\ queue' = Tail(queue)
                    \/ /\ Len(queue') > Len(queue)
                       /\ SubSeq(queue', 1, Len(queue)) = queue
         ]_vars
    /\ [](\A k \in DOMAIN listeners :
            OnlyTaskOfItsChannel(k) =>
                \A i, j \in SentBy(k) :
                    i < j => EnqueueRank(wsSent[i]) < EnqueueRank(wsSent[j]))

\* C13 witness: the client has received an event of another adapter between the
\* first status and a later event of one adapter.
C13_Witness ==
    \E k \in DOMAIN listeners :
        /\ OnlyTaskOfItsChannel(k)
        /\ \E i, j \in SentBy(k) :
              /\ i < j
              /\ EnqueueRank(wsSent[i]) = 0
              /\ wsSent[j].type = "chat"
              /\ \E m \in (i + 1)..(j - 1) : m \notin SentBy(k)

\* C14: an adapter task that is about to put an event on the shared queue can
\* always do so, whatever the queue holds: its first status, a chat event, the
\* events with which it ends and the status of its finally clause after a cancel.
C14_EnqueueNeverBlocks ==
    \A i \in DOMAIN listeners :
        /\ listeners[i].st = "starting" => ENABLED AdapterStart(i)
        /\ (listeners[i].st = "running" /\ listeners[i].chats < MaxChat)
              => ENABLED AdapterEmit(i)
        /\ listeners[i].st = "running" => ENABLED AdapterEnd(i)
        /\ listeners[i].st = "cancelling" => ENABLED AdapterCancelled(i)

\* C14 witness: five events wait on the queue, the forwarder has delivered none of
\* them, and an adapter task is still running and can enqueue a chat event.
C14_Witness ==
    /\ Len(queue) >= 5
    /\ fpc = "loop"
    /\ Len(wsSent) = Len(errors)
    /\ \E i \in DOMAIN listeners :
          /\ listeners[i].st = "running"
          /\ listeners[i].chats < MaxChat
          /\ ENABLED AdapterEmit(i)

\* C15: when the handler has returned from a subscribe request that named at
\* least one channel and no named channel was validated, the connected client has
\* been sent exactly one error event per named channel, in order, each with the
\* platform and the name of its channel, the connection was closed with code
\* 4405, and no adapter, forwarder or completion task was created.
C15_AllInvalidReportedThenClosed ==
    (hpc = "done" /\ client = "open" /\ Flatten(chans) # <<>> /\ clients = <<>>) =>
        /\ Len(wsSent) = Len(Flatten(chans))
        /\ \A k \in DOMAIN wsSent :
              /\ wsSent[k].type = "error"
              /\ wsSent[k].platform = Flatten(chans)[k][1]
              /\ wsSent[k].channel = Flatten(chans)[k][2]
        /\ closeCode = 4405
        /\ listeners = <<>> /\ fpc = "none" /\ cpc = "none"

\* the first message is a subscribe request
IsSubscribe(m) == m.received /\ "action" \in DOMAIN m /\ m.action = "subscribe"

\* C16: a first message that is not a subscribe request creates no task, and when
\* the handler has returned to a connected client without having created a task,
\* it has closed the connection with the code of the reason: 4000 when no first
\* message was decoded, 4001 when the message is not a subscribe request, 4002
\* when the request names no channel, 4405 when no named channel is valid; these
\* four codes differ from one another.
C16_EarlyEndHasItsOwnCode ==
    /\ ~IsSubscribe(init) => (listeners = <<>> /\ fpc = "none" /\ cpc = "none")
    /\ Cardinality({4000, 4001, 4002, 4405}) = 4
    /\ (hpc = "done" /\ client = "open" /\ listeners = <<>>) =>
          closeCode =
            (IF ~init.received THEN 4000
             ELSE IF ~IsSubscribe(init) THEN 4001
             ELSE IF Flatten(chans) = <<>> THEN 4002
             ELSE 4405)

(***************************************************************************)
(* _normalise_channels applied to requests that name many channels.        *)
(***************************************************************************)
\* the most names a request of CapRequests gives for one platform
MaxNamed == 12

\* subscribe requests with n Twitch names and m Kick names, all different: the
\* k-th name is k letters long
CapRequests ==
    LET Names(n) == [k \in 1..n |-> [j \in 1..k |-> "a"]]
    IN  {Subscribe(ListValue(Names(n)), ListValue(Names(m)), NoValue) :
            n \in 0..MaxNamed, m \in 0..MaxNamed}

CapInit ==
    /\ probe = [fn |-> "none"]
    /\ AdIdle
    /\ init \in CapRequests
    /\ hpc = "receive"
    /\ chans = [twitch |-> <<>>, kick |-> <<>>, youtube |-> <<>>]
    /\ vidx = 0
    /\ clients = <<>>
    /\ errors = <<>>
    /\ listeners = <<>>
    /\ queue = <<>>
    /\ stop = FALSE
    /\ fpc = "none"
    /\ cpc = "none"
    /\ wsSent = <<>>
    /\ closeCode = 0
    /\ client = "open"
    /\ handlerRaised = FALSE

\* the three _normalise_channels calls of websocket_endpoint on the request
NormaliseRequest ==
    /\ hpc = "receive"
    /\ chans' = [twitch |-> NormaliseChannels(init.twitch),
                 kick |-> NormaliseChannels(init.kick),
                 youtube |-> NormaliseChannels(init.youtube)]
    /\ hpc' = "validate"
    /\ UNCHANGED <<init, vidx, clients, errors, listeners, queue, stop, fpc, cpc,
                   wsSent, closeCode, client, handlerRaised>>
    /\ UNCHANGED <<adVars, probe>>

CapSpec == CapInit /\ [][NormaliseRequest]_vars

\* C17: the channels accepted from one subscribe request, counted over all
\* platforms together, are never more than the fixed maximum count.
C17_TotalChannelsCapped ==
    Len(Flatten(chans)) <= MaxChannels

(***************************************************************************)
(* Python values decoded from JSON, as the adapters handle them.           *)
(***************************************************************************)
\* None
JNull == [t |-> "null"]
\* a str that is not the JSON encoding of anything
JStr(s) == [t |-> "str", s |-> s]
JNum(n) == [t |-> "num", n |-> n]
JList(l) == [t |-> "list", l |-> l]
\* a dict: f maps its keys to their values, <<>> is the empty dict
JDict(f) == [t |-> "dict", f |-> f]
\* a str whose text is the JSON encoding of value
JEncoded(value) == [t |-> "str", s |-> <<"<json>">>, json |-> value]

\* bool(v)
Truthy(v) ==
    CASE v.t = "null" -> FALSE
      [] v.t = "str" -> v.s # <<>>
      [] v.t = "num" -> v.n # 0
      [] v.t = "list" -> v.l # <<>>
      [] OTHER -> DOMAIN v.f # {}

\* a or b
Or(a, b) == IF Truthy(a) THEN a ELSE b

\* d.get(k) of a dict d
Get(d, k) == IF k \in DOMAIN d.f THEN d.f[k] ELSE JNull

\* json.loads(x) of a str x: ok is FALSE when it raises JSONDecodeError
JsonLoads(x) ==
    IF "json" \in DOMAIN x THEN [ok |-> TRUE, value |-> x.json] ELSE [ok |-> FALSE]

(***************************************************************************)
(* KickChatClient: the Pusher frames and their handling.                   *)
(***************************************************************************)
\* mutant of PONG_PAYLOAD: the ping is echoed
PING_ECHO == JEncoded(JDict([event |-> JStr(<<"pusher:ping">>), data |-> JDict(<<>>)]))

\* PONG_PAYLOAD = json.dumps({"event": "pusher:pong", "data": {}})
PONG_PAYLOAD == JEncoded(JDict([event |-> JStr(<<"pusher:pong">>), data |-> JDict(<<>>)]))

\* json.dumps(subscribe_payload) of _consume
SubscribePayload ==
    JEncoded(JDict([event |-> JStr(<<"pusher:subscribe">>),
                    data |-> JDict([auth |-> JStr(<<>>),
                                    channel |-> JStr(<<"chatrooms.{chatroom_id}.v2">>)])]))

\* _decode_pusher_payload(raw): None for text that is not JSON
DecodePusherPayload(raw) ==
    LET r == JsonLoads(raw) IN IF r.ok THEN r.value ELSE JNull

\* _parse_chat_message(message): payload is None (JNull) for a dropped frame;
\* raised is TRUE when data decodes to something without .get (AttributeError)
ParseChatMessage(channel, message) ==
    LET raw_data == Get(message, "data")
        decoded == IF raw_data.t = "str" THEN JsonLoads(raw_data)
                   ELSE [ok |-> raw_data.t = "dict", value |-> raw_data]
    IN  IF ~decoded.ok THEN [raised |-> FALSE, payload |-> JNull]
        ELSE IF decoded.value.t # "dict" THEN [raised |-> TRUE, payload |-> JNull]
        ELSE
          LET data == decoded.value
              content == Or(Get(data, "content"), Get(data, "message"))
              sender == Or(Get(data, "sender"), Get(data, "user"))
              username == IF sender.t = "dict"
                          THEN Or(Get(sender, "username"), Get(sender, "slug"))
                          ELSE sender
              base == [platform |-> "kick", type |-> "chat", user |-> username,
                       message |-> content, channel |-> channel]
          IN  IF ~Truthy(content) \/ ~Truthy(username)
              THEN [raised |-> FALSE, payload |-> JNull]
              ELSE [raised |-> FALSE, payload |-> base]

\* a text frame carrying a Pusher message with this event name and data
Frame(event, data) == JEncoded(JDict([event |-> JStr(<<event>>), data |-> data]))

\* the "data" of the chat frames the model draws from
KickChatData ==
    LET bob == JStr(<<"b","o","b">>)
        hi == JStr(<<"h","i">>)
        empty == JStr(<<>>)
    IN  { \* a complete message, as a dict and as the JSON string Kick sends
          JDict([content |-> hi, sender |-> JDict([username |-> bob])]),
          JEncoded(JDict([content |-> hi, sender |-> JDict([username |-> bob])])),
          \* the fallbacks: "message" for the text, "user" and "slug" for the name
          JDict([message |-> hi, user |-> bob]),
          JDict([content |-> hi, sender |-> JDict([username |-> empty, slug |-> bob])]),
          \* empty or missing text, empty or missing name
          JDict([content |-> empty, sender |-> JDict([username |-> bob])]),
          JDict([sender |-> JDict([username |-> bob])]),
          JDict([content |-> hi, sender |-> JDict([username |-> empty])]),
          JDict([content |-> hi]),
          \* data that is no object
          JStr(<<"x">>), JNull, JEncoded(JList(<<JNum(1)>>)) }

\* the frames socket.recv() returns in the model
KickFrames ==
    { JStr(<<"x">>),                      \* not JSON
      JEncoded(JDict(<<>>)),              \* {}
      JEncoded(JList(<<JNum(1)>>)),       \* [1]
      Frame("pusher:connection_established", JNull),
      Frame("pusher_internal:subscription_succeeded", JNull),
      Frame("pusher:ping", JNull),
      Frame("pusher:error", JDict([code |-> JNum(4001)])),
      Frame("pusher:pong", JNull) }
    \cup {Frame("App\\Events\\ChatMessageEvent", d) : d \in KickChatData}

\* the event name of a received frame, JNull if it has none
FrameEvent(raw) ==
    LET message == DecodePusherPayload(raw)
    IN  IF message.t = "dict" THEN Get(message, "event") ELSE JNull

\* mutant of ConsumeFrame: the status is enqueued for every acknowledgement, the
\* `if not subscribed` test is gone
ConsumeFrameNoFlag(channel, raw, sub) ==
    LET message == DecodePusherPayload(raw)
        event == Get(message, "event")
        nothing == [subscribed |-> sub, sends |-> <<>>, events |-> <<>>, raised |-> FALSE]
    IN  IF ~Truthy(message) THEN nothing
        ELSE IF message.t # "dict" THEN [nothing EXCEPT !.raised = TRUE]
        ELSE IF event = JStr(<<"pusher:connection_established">>)
             THEN [nothing EXCEPT !.sends = <<SubscribePayload>>]
        ELSE IF event = JStr(<<"pusher_internal:subscription_succeeded">>)
             THEN [nothing EXCEPT !.subscribed = TRUE,
                                  !.events = <<ConnectedEvent("kick", channel)>>]
        ELSE IF event = JStr(<<"pusher:ping">>)
             THEN [nothing EXCEPT !.sends = <<PONG_PAYLOAD>>]
        ELSE IF event = JStr(<<"App\\Events\\ChatMessageEvent">>)
             THEN LET p == ParseChatMessage(channel, message)
                  IN  IF p.raised THEN [nothing EXCEPT !.raised = TRUE]
                      ELSE IF "type" \notin DOMAIN p.payload THEN nothing
                      ELSE [nothing EXCEPT !.events = <<p.payload>>]
        ELSE IF event = JStr(<<"pusher:error">>)
             THEN [nothing EXCEPT !.events =
                      <<ChannelEvent("kick", channel, "error", "Kick reported error: ", <<>>)>>]
        ELSE nothing

\* one iteration of the loop of _consume after recv() returned raw: the new value
\* of `subscribed`, the frames given to socket.send, the events put on the queue,
\* and whether the iteration raised (message.get on a value that is no dict)
ConsumeFrame(channel, raw, sub) ==
    LET message == DecodePusherPayload(raw)
        event == Get(message, "event")
        nothing == [subscribed |-> sub, sends |-> <<>>, events |-> <<>>, raised |-> FALSE]
    IN  IF ~Truthy(message) THEN nothing
        ELSE IF message.t # "dict" THEN [nothing EXCEPT !.raised = TRUE]
        ELSE IF event = JStr(<<"pusher:connection_established">>)
             THEN [nothing EXCEPT !.sends = <<SubscribePayload>>]
        ELSE IF event = JStr(<<"pusher_internal:subscription_succeeded">>)
             THEN IF sub THEN nothing
                  ELSE [nothing EXCEPT !.subscribed = TRUE,
                                       !.events = <<ConnectedEvent("kick", channel)>>]
        ELSE IF event = JStr(<<"pusher:ping">>)
             THEN [nothing EXCEPT !.sends = <<PONG_PAYLOAD>>]
        ELSE IF event = JStr(<<"App\\Events\\ChatMessageEvent">>)
             THEN LET p == ParseChatMessage(channel, message)
                  IN  IF p.raised THEN [nothing EXCEPT !.raised = TRUE]
                      ELSE IF "type" \notin DOMAIN p.payload THEN nothing
                      ELSE [nothing EXCEPT !.events = <<p.payload>>]
        ELSE IF event = JStr(<<"pusher:error">>)
             THEN [nothing EXCEPT !.events =
                      <<ChannelEvent("kick", channel, "error", "Kick reported error: ", <<>>)>>]
        ELSE nothing

(***************************************************************************)
(* One adapter object: run() from its first statement to its end.          *)
(* apc is "start" before the connection is made, "recv" while run() waits  *)
(* for upstream inside its loop, "exit" from the point the loop is left    *)
(* until the except/finally clauses have run, then "done" or "raised".     *)
(***************************************************************************)
\* lines, frames or poll responses one run() consumes in the model
MaxReads == 3

\* the name the adapter under study was constructed with
AdChannel == IF focus = "youtube" THEN <<"@","a","b","c">> ELSE <<"a","b","c">>

\* the environment sets stop_event (the handler's finally, the completion task)
AdStop ==
    /\ UNCHANGED ytVars
    /\ apc \in {"start", "recv"}
    /\ ~astop
    /\ astop' = TRUE
    /\ UNCHANGED <<handle, focus, apc, acause, out, reads, upRecv, upSent, subscribed>>
    /\ UNCHANGED <<orchVars, probe>>

\* the wait for upstream times out with nothing read (Kick: `continue`; YouTube:
\* the sleep between polls ends) and the loop condition is evaluated again
AdTimeout ==
    /\ UNCHANGED ytVars
    /\ focus \in {"kick", "youtube"}
    /\ apc = "recv"
    /\ IF astop
       THEN apc' = "exit" /\ acause' = "stop"
       ELSE UNCHANGED <<apc, acause>>
    /\ UNCHANGED <<handle, focus, out, astop, reads, upRecv, upSent, subscribed>>
    /\ UNCHANGED <<orchVars, probe>>

\* the wait for upstream ends run()'s loop: the peer closes (Twitch: readline
\* returns b""; Kick: recv raises ConnectionClosed) or another exception is raised
AdFail ==
    /\ UNCHANGED ytVars
    /\ apc = "recv"
    /\ \E cause \in EndCauses(focus) \cap {"closed", "exception"} :
         acause' = cause
    /\ apc' = "exit"
    /\ UNCHANGED <<handle, focus, out, astop, reads, upRecv, upSent, subscribed>>
    /\ UNCHANGED <<orchVars, probe>>

\* task.cancel(): CancelledError is raised at the await run() is suspended in
AdCancel ==
    /\ UNCHANGED ytVars
    /\ apc = "recv"
    /\ acause' = "cancel"
    /\ apc' = "exit"
    /\ UNCHANGED <<handle, focus, out, astop, reads, upRecv, upSent, subscribed>>
    /\ UNCHANGED <<orchVars, probe>>

\* KickChatClient.run up to the first recv().  _chatroom_id was set by
\* ensure_channel_exists before the task was created, so nothing is looked up;
\* a failure of the profile lookup is swallowed; then websockets.connect and
\* `subscribed = False`
KickStart ==
    /\ UNCHANGED ytVars
    /\ focus = "kick"
    /\ apc = "start"
    /\ \E connected \in BOOLEAN :
         IF ~connected
         THEN acause' = "exception" /\ apc' = "exit" /\ UNCHANGED handle
         ELSE /\ handle' = "open"
              /\ IF astop THEN apc' = "exit" /\ acause' = "stop"
                 ELSE apc' = "recv" /\ UNCHANGED acause
    /\ UNCHANGED <<focus, out, astop, reads, upRecv, upSent, subscribed>>
    /\ UNCHANGED <<orchVars, probe>>

\* one iteration of the loop of _consume: recv() returns a frame, the frame is
\* handled, the loop condition is evaluated.  socket.send may raise
\* ConnectionClosed; upSent records the frames handed to it either way.
KickRecv ==
    /\ UNCHANGED ytVars
    /\ focus = "kick"
    /\ apc = "recv"
    /\ reads < MaxReads
    /\ \E raw \in KickFrames, sendOk \in BOOLEAN :
         LET h == ConsumeFrame(AdChannel, raw, subscribed)
         IN  /\ reads' = reads + 1
             /\ upRecv' = Append(upRecv, raw)
             /\ upSent' = upSent \o h.sends
             /\ IF h.raised
                THEN /\ acause' = "exception"
                     /\ apc' = "exit"
                     /\ UNCHANGED <<out, subscribed>>
                ELSE IF h.sends # <<>> /\ ~sendOk
                THEN /\ acause' = "closed"
                     /\ apc' = "exit"
                     /\ UNCHANGED <<out, subscribed>>
                ELSE /\ out' = out \o h.events
                     /\ subscribed' = h.subscribed
                     /\ IF astop THEN apc' = "exit" /\ acause' = "stop"
                        ELSE UNCHANGED <<apc, acause>>
    /\ UNCHANGED <<handle, focus, astop>>
    /\ UNCHANGED <<orchVars, probe>>

(***************************************************************************)
(* TwitchChatClient: the IRC lines and their handling.                     *)
(***************************************************************************)
\* value[1:]
DropFirst(s) == IF s = <<>> THEN <<>> ELSE Tail(s)

RECURSIVE ParseTagItems(_)
\* the loop of _parse_tags over chunk.split(";"): the <<key, value>> pairs in the
\* order they are stored; an item without "=" is skipped
ParseTagItems(items) ==
    IF items = <<>> THEN <<>>
    ELSE LET item == Head(items)
             kv == Partition(item, <<"=">>)
         IN  (IF Contains(item, <<"=">>) THEN << <<kv[1], kv[3]>> >> ELSE <<>>)
             \o ParseTagItems(Tail(items))

\* _parse_tags(chunk)
ParseTags(chunk) == ParseTagItems(Split(chunk, <<";">>))

\* tags.get(key): the value stored last under key, None if there is none
TagGet(tags, key) ==
    LET hits == {k \in DOMAIN tags : tags[k][1] = key}
    IN  IF hits = {} THEN JNull
        ELSE JStr(tags[CHOOSE k \in hits : \A j \in hits : j <= k][2])

\* _unescape_tag_value(value): the five replacements, in the order of the dict
UnescapeTagValue(value) ==
    IF value = JNull THEN JNull
    ELSE LET r1 == Replace(value.s, <<"\\","s">>, <<" ">>)
             r2 == Replace(r1, <<"\\","n">>, <<"\n">>)
             r3 == Replace(r2, <<"\\","r">>, <<"\r">>)
             r4 == Replace(r3, <<"\\",":">>, <<";">>)
             r5 == Replace(r4, <<"\\","\\">>, <<"\\">>)
         IN  JStr(r5)

TagDisplayName == <<"d","i","s","p","l","a","y","-","n","a","m","e">>
TextPrivmsgSep == <<" ","P","R","I","V","M","S","G"," ">>
TextPrivmsg == <<"P","R","I","V","M","S","G">>
TextPing == <<"P","I","N","G">>
TextPong == <<"P","O","N","G">>

TagEmotes == <<"e","m","o","t","e","s">>

\* mutant of SpanOutOfRange: the span is not compared with the message
SpanOutOfRangeNoLength(start, end, message) == start < 0 \/ end < start

\* `if start < 0 or end < start or end >= len(message): continue` of _parse_emotes
SpanOutOfRange(start, end, message) ==
    start < 0 \/ end < start \/ end >= Len(message)

\* _parse_emotes(emote_tag, message): the list of {id, name, positions}, one per
\* (id, name) in the order emote_map got its keys; positions are <<start, end>>
ParseEmotes(emote_tag, message) ==
    LET Digits == <<"0","1","2","3","4","5","6","7","8","9">>
        \* int(text) of a stripped text: one sign is accepted, then digits only
        IntOf(t) ==
            LET d == IF t # <<>> /\ t[1] \in {"+", "-"} THEN Tail(t) ELSE t
                val[k \in 0..Len(d)] ==
                    IF k = 0 THEN 0
                    ELSE 10 * val[k - 1] + (CHOOSE i \in 1..10 : Digits[i] = d[k]) - 1
            IN  IF d = <<>> \/ \E k \in DOMAIN d : d[k] \notin Range(Digits)
                THEN [ok |-> FALSE]
                ELSE [ok |-> TRUE, n |-> IF t[1] = "-" THEN 0 - val[Len(d)] ELSE val[Len(d)]]
        \* the body of the `for span in positions.split(",")` loop: slices after it
        Span(slices, cut, start, end) ==
            IF cut[1] = <<>> \/ cut[3] = <<>> THEN slices
            ELSE IF ~start.ok \/ ~end.ok THEN slices
            ELSE IF SpanOutOfRange(start.n, end.n, message) THEN slices
            ELSE Append(slices, <<start.n, end.n>>)
        SpanOf(slices, cut) == Span(slices, cut, IntOf(Strip(cut[1])), IntOf(Strip(cut[3])))
        Slices(spans) ==
            LET kept[k \in 0..Len(spans)] ==
                    IF k = 0 THEN <<>>
                    ELSE SpanOf(kept[k - 1], Partition(spans[k], <<"-">>))
            IN  kept[Len(spans)]
        \* message[start : end + 1]; a slice stops at the end of the str
        Sliced(from, upto) ==
            IF from < upto /\ from < Len(message)
            THEN SubSeq(message, from + 1, IF upto < Len(message) THEN upto ELSE Len(message))
            ELSE <<>>
        \* emote_map.setdefault(key, []).extend(slices)
        Extend(map, id, name, slices) ==
            IF \E i \in DOMAIN map : map[i].id = id /\ map[i].name = name
            THEN [i \in DOMAIN map |->
                    IF map[i].id = id /\ map[i].name = name
                    THEN [map[i] EXCEPT !.positions = @ \o slices]
                    ELSE map[i]]
            ELSE Append(map, [id |-> id, name |-> name, positions |-> slices])
        \* the body of the `for entry in emote_tag.split("/")` loop
        Entry(map, id, positions, slices) ==
            IF id = <<>> \/ positions = <<>> THEN map
            ELSE IF slices = <<>> THEN map
            ELSE Extend(map, id, Sliced(slices[1][1], slices[1][2] + 1), slices)
        EntryOf(map, cut) == Entry(map, cut[1], cut[3], Slices(Split(cut[3], <<",">>)))
        Entries(entries) ==
            LET emote_map[k \in 0..Len(entries)] ==
                    IF k = 0 THEN <<>>
                    ELSE EntryOf(emote_map[k - 1], Partition(entries[k], <<":">>))
            IN  emote_map[Len(entries)]
    IN  IF ~Truthy(emote_tag) THEN <<>> ELSE Entries(Split(emote_tag.s, <<"/">>))

TagBadges == <<"b","a","d","g","e","s">>

\* _resolve_badges(badges_tag) with _badge_cache = badge_cache, the set of the
\* manifest entries {set_id, version, title, image_url}: the entries found for
\* the name/version tokens of the tag, in their order
ResolveBadges(badges_tag, badge_cache) ==
    LET \* the body of the `for token in badges_tag.split(",")` loop
        Token(result, token, cut) ==
            IF token = <<>> THEN result
            ELSE IF cut[1] = <<>> \/ cut[3] = <<>> THEN result
            ELSE IF \E b \in badge_cache : b.set_id = cut[1] /\ b.version = cut[3]
            THEN Append(result, CHOOSE b \in badge_cache :
                                    b.set_id = cut[1] /\ b.version = cut[3])
            ELSE result
        Tokens(tokens) ==
            LET result[k \in 0..Len(tokens)] ==
                    IF k = 0 THEN <<>>
                    ELSE Token(result[k - 1], tokens[k], Partition(tokens[k], <<"/">>))
            IN  result[Len(tokens)]
    IN  IF ~Truthy(badges_tag) \/ badge_cache = {} THEN <<>>
        ELSE Tokens(Split(badges_tag.s, <<",">>))

\* _parse_privmsg(payload) of an adapter whose _badge_cache is badge_cache,
\* without the optional keys id, reply, color and user_id.  Neither IndexError
\* nor ValueError can arise on the way: split("!")[0] exists, [1:] of an empty
\* str is empty, and _parse_emotes catches the ValueError of int().
ParsePrivmsg(payload, badge_cache) ==
    LET tagged == StartsWith(payload, <<"@">>)
        cut == Partition(payload, <<" ">>)
        rest == IF tagged THEN cut[3] ELSE payload
        pp == Partition(rest, TextPrivmsgSep)
        username == DropFirst(Split(pp[1], <<"!">>)[1])
        \* message_payload with the "emotes" and "badges" keys set when truthy
        WithKeys(message_payload, emotes, badges) ==
            (IF emotes = <<>> THEN message_payload
             ELSE message_payload @@ [emotes |-> emotes])
            @@ (IF badges = <<>> THEN <<>> ELSE [badges |-> badges])
        Payload(tags, text) ==
            WithKeys([platform |-> "twitch", type |-> "chat",
                      user |-> Or(UnescapeTagValue(TagGet(tags, TagDisplayName)),
                                  JStr(username)),
                      message |-> JStr(text)],
                     ParseEmotes(TagGet(tags, TagEmotes), text),
                     ResolveBadges(TagGet(tags, TagBadges), badge_cache))
    IN  Payload(IF tagged THEN ParseTags(DropFirst(cut[1])) ELSE <<>>,
                Partition(pp[3], <<" ",":">>)[3])

\* one iteration of the read loop of run() after readline() returned raw: the
\* lines given to _write_line (with the "\r\n" it adds) and the events enqueued.
\* raw.decode(errors="ignore") leaves the ASCII text of the model as it is.
\* The adapter has no badge manifest (no Twitch credentials are configured, or
\* the lookup failed and _badge_cache was cleared).
HandleLine(raw) ==
    LET decoded == Strip(raw)
    IN  IF StartsWith(decoded, TextPing)
        THEN [sends |-> <<Replace(decoded, TextPing, TextPong) \o <<"\r","\n">> >>,
              events |-> <<>>]
        ELSE IF Contains(decoded, TextPrivmsg)
        THEN [sends |-> <<>>, events |-> <<ParsePrivmsg(decoded, {})>>]
        ELSE [sends |-> <<>>, events |-> <<>>]

\* the lines readline() returns in the model
TwitchLines ==
    { \* a tagged and an untagged chat line
      <<"@","d","i","s","p","l","a","y","-","n","a","m","e","=","B","o",";","i","d","=","1"," ",":","b","o","!","b","o","@","x"," ","P","R","I","V","M","S","G"," ","#","a","b","c"," ",":","h","i","\r","\n">>,
      <<":","b","o","!","b","o","@","x"," ","P","R","I","V","M","S","G"," ","#","a","b","c"," ",":","h","i","\r","\n">>,
      \* a chat line with no text after " :"
      <<":","b","o","!","b","o","@","x"," ","P","R","I","V","M","S","G"," ","#","a","b","c"," ",":","\r","\n">>,
      \* a chat line whose prefix names nobody
      <<":"," ","P","R","I","V","M","S","G"," ","#","a","b","c"," ",":","h","i","\r","\n">>,
      \* an empty display-name tag, an escaped one
      <<"@","d","i","s","p","l","a","y","-","n","a","m","e","="," ",":","b","o","!","b","o","@","x"," ","P","R","I","V","M","S","G"," ","#","a","b","c"," ",":","y","o","\r","\n">>,
      <<"@","d","i","s","p","l","a","y","-","n","a","m","e","=","B","\\","s","o"," ",":","b","o","!","b","o","@","x"," ","P","R","I","V","M","S","G"," ","#","a","b","c"," ",":","y","o","\r","\n">>,
      \* the server's keepalive, a numeric reply, an empty line
      <<"P","I","N","G"," ",":","t","m","i",".","t","w","i","t","c","h",".","t","v","\r","\n">>,
      \* a keepalive whose token holds the letters of the command
      <<"P","I","N","G"," ",":","P","I","N","G","1","\r","\n">>,
      <<":","t","m","i",".","t","w","i","t","c","h",".","t","v"," ","0","0","1"," ","x"," ",":","H","i","\r","\n">>,
      <<"\r","\n">> }

\* HandleLine of each of these lines, computed once per line
LineEffect == [l \in TwitchLines |-> HandleLine(l)]

\* what _write_line(message) writes: the message and "\r\n"
WrittenLine(message) == message \o <<"\r", "\n">>

\* TwitchChatClient.run up to the first readline(): the badge lookup (its failure
\* is swallowed), open_connection, the four login lines, the first status event.
\* upSent holds the login lines of a start that got through.
TwitchStart ==
    /\ UNCHANGED ytVars
    /\ focus = "twitch"
    /\ apc = "start"
    /\ \E connected \in BOOLEAN :
         IF ~connected
         THEN /\ acause' = "exception"
              /\ apc' = "exit"
              \* the badge lookup or open_connection raised, or a login line
              \* could not be written to the connection just opened
              /\ handle' \in {"none", "open"}
              /\ UNCHANGED <<out, upSent>>
         ELSE /\ handle' = "open"
              /\ upSent' = upSent \o
                    << WrittenLine(<<"CAP REQ :twitch.tv/tags twitch.tv/commands twitch.tv/membership">>),
                       WrittenLine(<<"PASS SCHMOOPIIE">>),
                       WrittenLine(<<"NICK justinfan", "<secrets.randbelow>">>),
                       WrittenLine(<<"JOIN #">> \o AdChannel) >>
              /\ out' = Append(out, ConnectedEvent("twitch", AdChannel))
              /\ IF astop THEN apc' = "exit" /\ acause' = "stop"
                 ELSE apc' = "recv" /\ UNCHANGED acause
    /\ UNCHANGED <<focus, astop, reads, upRecv, subscribed>>
    /\ UNCHANGED <<orchVars, probe>>

\* one iteration of the read loop: readline() returns a line, the line is handled,
\* the loop condition is evaluated.  _write_line may raise.
TwitchRecv ==
    /\ UNCHANGED ytVars
    /\ focus = "twitch"
    /\ apc = "recv"
    /\ reads < MaxReads
    /\ \E raw \in TwitchLines, writeOk \in BOOLEAN :
         LET h == LineEffect[raw]
         IN  /\ reads' = reads + 1
             /\ upRecv' = Append(upRecv, raw)
             /\ upSent' = upSent \o h.sends
             /\ IF h.sends # <<>> /\ ~writeOk
                THEN /\ acause' = "exception"
                     /\ apc' = "exit"
                     /\ UNCHANGED out
                ELSE /\ out' = out \o h.events
                     /\ IF astop THEN apc' = "exit" /\ acause' = "stop"
                        ELSE UNCHANGED <<apc, acause>>
    /\ UNCHANGED <<handle, focus, astop, subscribed>>
    /\ UNCHANGED <<orchVars, probe>>

\* readline() times out after 300 s: "PING :keepalive" is written, `continue`
TwitchTimeout ==
    /\ UNCHANGED ytVars
    /\ focus = "twitch"
    /\ apc = "recv"
    /\ reads < MaxReads
    /\ reads' = reads + 1
    /\ upSent' = Append(upSent, WrittenLine(<<"PING :keepalive">>))
    /\ IF astop THEN apc' = "exit" /\ acause' = "stop"
       ELSE UNCHANGED <<apc, acause>>
    /\ UNCHANGED <<handle, focus, out, astop, upRecv, subscribed>>
    /\ UNCHANGED <<orchVars, probe>>

(***************************************************************************)
(* YouTubeChatClient: the poll responses, _parse_message, the caches.      *)
(***************************************************************************)
\* the bound of _seen_message_ids: `if len(self._seen_message_ids) > 5000`
SeenLimit == 5000

\* the str "m<k>": a provider message id
JId(k) == [t |-> "str", s |-> <<"m">>, n |-> k]

\* isinstance(v, dict) and then v, else None
DictOrNone(v) == IF v.t = "dict" THEN v ELSE JNull

\* the payload _parse_message builds for item once the id test let it through
\* (without the optional keys), JNull where it returns None
MessagePayload(channel, item) ==
    LET snippet == DictOrNone(Get(item, "snippet"))
        author == DictOrNone(Get(item, "authorDetails"))
        message_type == Get(snippet, "type")
        details == Get(snippet, "superChatDetails")
        user_comment == Get(details, "userComment")
        display_message ==
            IF /\ message_type = JStr(<<"superChatEvent">>)
               /\ details.t = "dict"
               /\ user_comment.t = "str"
               /\ Strip(user_comment.s) # <<>>
            THEN user_comment
            ELSE Get(snippet, "displayMessage")
        author_name == IF Get(author, "displayName").t = "str"
                       THEN Get(author, "displayName")
                       ELSE JStr(<<"YouTube User">>)
    IN  IF ~Truthy(snippet) \/ ~Truthy(author) THEN JNull
        ELSE IF message_type \notin {JStr(<<"textMessageEvent">>), JStr(<<"superChatEvent">>)}
        THEN JNull
        ELSE IF display_message.t # "str" \/ Strip(display_message.s) = <<>> THEN JNull
        ELSE IF Get(item, "id").t = "str"
        THEN [platform |-> "youtube", type |-> "chat", user |-> author_name,
              message |-> display_message, channel |-> channel, id |-> Get(item, "id")]
        ELSE [platform |-> "youtube", type |-> "chat", user |-> author_name,
              message |-> display_message, channel |-> channel]

\* _seen_message_ids as one value
SeenSet == [ids |-> seenIds, other |-> seenOther]

\* len(self._seen_message_ids)
SeenSize(seen) == Cardinality(seen.ids) + seen.other

\* what set.pop() can remove from seen: an arbitrary element, which is one of the
\* ids the model's responses carry or (0) one of the others
PopVictims(seen) == seen.ids \cup (IF seen.other > 0 THEN {0} ELSE {})

\* _seen_message_ids after add(message_id) and the bound test, where victim is
\* the element set.pop() removes when the bound is exceeded
SeenAfterAdd(seen, k, victim) ==
    LET added == [seen EXCEPT !.ids = @ \cup {k}]
    IN  IF SeenSize(added) <= SeenLimit THEN added
        ELSE IF victim = 0 THEN [added EXCEPT !.other = @ - 1]
        ELSE [added EXCEPT !.ids = @ \ {victim}]

\* item is recorded in _seen_message_ids: a dict whose id is a str not yet there
AddsId(item, seen) ==
    /\ item.t = "dict"
    /\ Get(item, "id").t = "str"
    /\ Get(item, "id").n \notin seen.ids

\* _parse_message(item): the new _seen_message_ids and the events enqueued
ParseMessage(channel, item, seen, victim) ==
    IF item.t # "dict" THEN [seen |-> seen, events |-> <<>>]
    ELSE LET message_id == Get(item, "id")
             payload == MessagePayload(channel, item)
             events == IF payload = JNull THEN <<>> ELSE <<payload>>
         IN  IF message_id.t # "str" THEN [seen |-> seen, events |-> events]
             ELSE IF message_id.n \in seen.ids THEN [seen |-> seen, events |-> <<>>]
             ELSE [seen |-> SeenAfterAdd(seen, message_id.n, victim), events |-> events]

RECURSIVE ParseItems(_, _, _, _)
\* the `for item in items` loop of run(); victims[k] is what set.pop() removes
\* while items[k] is parsed, if it is called then
ParseItems(channel, items, seen, victims) ==
    IF items = <<>> THEN [seen |-> seen, events |-> <<>>]
    ELSE LET first == ParseMessage(channel, Head(items), seen, Head(victims))
             rest == ParseItems(channel, Tail(items), first.seen, Tail(victims))
         IN  [seen |-> rest.seen, events |-> first.events \o rest.events]

RECURSIVE PopChoices(_, _)
\* what the set.pop() calls of one `for item in items` loop can remove, one entry
\* per item; the entry is -1 for an item that does not make the set exceed its bound
PopChoices(items, seen) ==
    IF items = <<>> THEN {<<>>}
    ELSE IF AddsId(Head(items), seen)
    THEN LET added == [seen EXCEPT !.ids = @ \cup {Get(Head(items), "id").n}]
         IN  IF SeenSize(added) > SeenLimit
             THEN UNION { { <<victim>> \o rest :
                              rest \in PopChoices(Tail(items),
                                                  SeenAfterAdd(seen, Get(Head(items), "id").n, victim)) } :
                          victim \in PopVictims(added) }
             ELSE { <<-1>> \o rest : rest \in PopChoices(Tail(items), added) }
    ELSE { <<-1>> \o rest : rest \in PopChoices(Tail(items), seen) }

\* a liveChatMessage resource
Item(id, type, text, author) ==
    JDict([id |-> id,
           snippet |-> JDict([type |-> JStr(<<type>>), displayMessage |-> text]),
           authorDetails |-> JDict([displayName |-> author])])

\* a super chat with a user comment
SuperChatItem(id, text, comment, author) ==
    JDict([id |-> id,
           snippet |-> JDict([type |-> JStr(<<"superChatEvent">>), displayMessage |-> text,
                              superChatDetails |-> JDict([userComment |-> comment])]),
           authorDetails |-> JDict([displayName |-> author])])

\* LIVE_CHAT_CACHE_TTL_SECONDS and LIVE_CHAT_FAILURE_TTL_SECONDS
LIVE_CHAT_CACHE_TTL_SECONDS == 300
LIVE_CHAT_FAILURE_TTL_SECONDS == 120

\* the live chats upstream can report for the channel, by number
MaxLive == 2
LiveIds == 1..MaxLive

\* _get_cached_live_chat(cache_key, handle) at time t: the entry returned (NoEntry
\* for None) and the cache afterwards; an expired entry met on the way is removed
GetCachedLiveChat(cache, t) ==
    LET live(k) == cache[k].id # 0 /\ cache[k].exp > t
    IN  IF live("cid") THEN [entry |-> cache["cid"], cache |-> cache]
        ELSE IF live("handle")
             THEN [entry |-> cache["handle"], cache |-> [cache EXCEPT !["cid"] = NoEntry]]
        ELSE [entry |-> NoEntry,
              cache |-> [k \in DOMAIN cache |->
                            IF k \in {"cid", "handle"} THEN NoEntry ELSE cache[k]]]

\* mutant of LoadLiveChatCacheDb: the entry built from a row gets a whole TTL
LoadLiveChatCacheDbFullTtl(row, t) ==
    IF row = NoEntry THEN [entry |-> NoEntry, row |-> NoEntry]
    ELSE IF row.exp <= t \/ row.id = 0 THEN [entry |-> NoEntry, row |-> NoEntry]
    ELSE [entry |-> [id |-> row.id, exp |-> t + LIVE_CHAT_CACHE_TTL_SECONDS], row |-> row]

\* _load_live_chat_cache_db(handle) at time t: the entry built from the row (its
\* expiry is now + the time the row has left) and the row afterwards
LoadLiveChatCacheDb(row, t) ==
    IF row = NoEntry THEN [entry |-> NoEntry, row |-> NoEntry]
    ELSE IF row.exp <= t \/ row.id = 0 THEN [entry |-> NoEntry, row |-> NoEntry]
    ELSE [entry |-> [id |-> row.id, exp |-> t + (row.exp - t)], row |-> row]

\* mutant of InvalidateLiveChatCache: only the channel-id key is popped, the
\* handle is forgotten
InvalidatePrimaryOnly(state) ==
    [state EXCEPT !.cache = [state.cache EXCEPT !["cid"] = NoEntry], !.mark = -1]

\* invalidate_live_chat_cache(channel_id, handle) on [cache, mark, row]: the
\* memory entries and failure marks of both keys are popped; the row is not touched
InvalidateLiveChatCache(state) ==
    [state EXCEPT !.cache = [k \in DOMAIN state.cache |->
                                IF k \in {"cid", "handle"} THEN NoEntry
                                ELSE state.cache[k]],
                  !.mark = -1]

\* _resolve_live_chat_id_with_client at time t on [cache, mark, row], where
\* fetched is what fetch_live_chat_id_for_channel would return (0 for None): the
\* id returned, where it came from, and the caches afterwards
ResolveLiveChatId(state, t, fetched) ==
    LET mem == GetCachedLiveChat(state.cache, t)
        db == LoadLiveChatCacheDb(state.row, t)
        fresh == [id |-> fetched, exp |-> t + LIVE_CHAT_CACHE_TTL_SECONDS]
    IN  IF mem.entry # NoEntry
        THEN [id |-> mem.entry.id, src |-> "memory",
              cache |-> mem.cache, mark |-> state.mark, row |-> state.row]
        ELSE IF db.entry # NoEntry
        THEN [id |-> db.entry.id, src |-> "db",
              cache |-> [k \in DOMAIN mem.cache |->
                            IF k \in {"cid", "handle"} THEN db.entry ELSE mem.cache[k]],
              mark |-> state.mark, row |-> db.row]
        ELSE IF /\ state.mark # -1 /\ state.mark # 0
                /\ state.mark + LIVE_CHAT_FAILURE_TTL_SECONDS > t
        THEN [id |-> 0, src |-> "negative",
              cache |-> mem.cache, mark |-> state.mark, row |-> db.row]
        ELSE IF fetched # 0
        THEN [id |-> fetched, src |-> "upstream",
              cache |-> [k \in DOMAIN mem.cache |->
                            IF k \in {"cid", "handle"} THEN fresh ELSE mem.cache[k]],
              mark |-> -1, row |-> fresh]
        ELSE [id |-> 0, src |-> "upstream",
              cache |-> mem.cache, mark |-> t, row |-> db.row]

\* the caches as one value
CacheState == [cache |-> liveCache, mark |-> failMark, row |-> liveDb]

\* the items of the poll responses the model draws from
YouTubeBatches ==
    LET bob == JStr(<<"b","o","b">>)
        hi == JStr(<<"h","i">>)
        A == Item(JId(1), "textMessageEvent", hi, bob)
        B == Item(JId(2), "textMessageEvent", hi, JStr(<<>>))
        C == Item(JNull, "textMessageEvent", JStr(<<" ">>), bob)
        D == Item(JId(3), "memberMilestoneChatEvent", hi, bob)
        E == Item(JId(4), "textMessageEvent", hi, JNull)
        F == SuperChatItem(JId(5), JStr(<<"$","5">>), hi, bob)
        G == JNum(1)
        H == Item(JId(3), "textMessageEvent", hi, bob)
    IN  { <<>>, <<A>>, <<B>>, <<C>>, <<D>>, <<E>>, <<F>>, <<G>>, <<H>>,
          <<A, A>>, <<B, A>> }

\* what client.get returns in the model; status 0 stands for httpx.HTTPError
PollResponses ==
    { [status |-> 0], [status |-> 403], [status |-> 404], [status |-> 410],
      [status |-> 500],
      [status |-> 200, body |-> JStr(<<"<html>">>)],
      [status |-> 200, body |-> JEncoded(JList(<<>>))] }
    \cup { [status |-> 200, body |-> JEncoded(JDict([items |-> JList(batch)]))] :
             batch \in YouTubeBatches }
    \cup { \* a page that names the next one and asks for 5 s between polls
           [status |-> 200,
            body |-> JEncoded(JDict([items |-> JList(<<>>),
                                     nextPageToken |-> JStr(<<"p1">>),
                                     pollingIntervalMillis |-> JNum(5000)]))] }

\* mutant of PollLocalsAfter: a poll that failed starts over from the first page
PollLocalsForgetful(locals, response) ==
    IF response.status # 200
    THEN [locals EXCEPT !.next_page_token = JNull]
    ELSE LET payload == JsonLoads(response.body).value
             interval_ms == IF payload.t = "dict" THEN Get(payload, "pollingIntervalMillis")
                            ELSE JNull
         IN  [next_page_token |-> IF payload.t = "dict" THEN Get(payload, "nextPageToken")
                                  ELSE JNull,
              poll_interval |-> IF interval_ms.t = "num" /\ interval_ms.n > 0
                                THEN (IF interval_ms.n > 1000 THEN interval_ms.n ELSE 1000)
                                ELSE locals.poll_interval]

\* the locals next_page_token and poll_interval (in ms) of run() after an
\* iteration of the poll loop that got response and did not leave the loop: both
\* are assigned only below `payload = response.json()`
PollLocalsAfter(locals, response) ==
    IF response.status # 200 THEN locals
    ELSE LET payload == JsonLoads(response.body).value
             interval_ms == IF payload.t = "dict" THEN Get(payload, "pollingIntervalMillis")
                            ELSE JNull
         IN  [next_page_token |-> IF payload.t = "dict" THEN Get(payload, "nextPageToken")
                                  ELSE JNull,
              poll_interval |-> IF interval_ms.t = "num" /\ interval_ms.n > 0
                                THEN (IF interval_ms.n > 1000 THEN interval_ms.n ELSE 1000)
                                ELSE locals.poll_interval]

RECURSIVE PollLocals(_)
\* the locals of run() after the iterations that got these responses, from
\* `next_page_token = None` and `poll_interval = 2.5`
PollLocals(responses) ==
    IF responses = <<>> THEN [next_page_token |-> JNull, poll_interval |-> 2500]
    ELSE PollLocalsAfter(PollLocals(SubSeq(responses, 1, Len(responses) - 1)),
                         responses[Len(responses)])

\* the request of the next iteration: params["pageToken"] is set only for a
\* truthy next_page_token; slept is the asyncio.sleep that ended the iteration
\* before, 0 for the first request of a run
PollRequest(responses) ==
    [pageToken |-> Or(PollLocals(responses).next_page_token, JNull),
     slept |-> IF responses = <<>> THEN 0 ELSE PollLocals(responses).poll_interval]

\* the span of clock values of the model and the steps the clock makes
MaxElapsed == 300
TickSteps == {120, 180}

\* time passes.  Only ensure_channel_exists reads the clock, so the time that
\* passed since the previous resolution is added before the next one.
Tick ==
    /\ focus = "youtube"
    /\ apc = "new"
    /\ \E d \in TickSteps :
         /\ now + d <= ClockStart + MaxElapsed
         /\ now' = now + d
    /\ UNCHANGED <<handle, focus, apc, acause, out, astop, reads, upRecv, upSent, subscribed,
                   seenIds, seenOther, ytLive, liveCache, failMark, liveDb, resolved, ended>>
    /\ UNCHANGED <<orchVars, probe>>

\* ensure_channel_exists as the handler calls it for a new YouTubeChatClient;
\* found is whether resolve_channel_metadata returned a channel id.  On a
\* RuntimeError the handler reports the channel and creates no task.
YouTubeEnsure ==
    /\ focus = "youtube"
    /\ apc = "new"
    /\ \E found \in BOOLEAN, fetched \in {0} \cup LiveIds :
         IF ~found
         THEN /\ apc' = "invalid"
              /\ UNCHANGED <<ytLive, liveCache, failMark, liveDb, resolved>>
         ELSE LET r == ResolveLiveChatId(CacheState, now, fetched)
              IN  /\ liveCache' = r.cache
                  /\ failMark' = r.mark
                  /\ liveDb' = r.row
                  /\ resolved' = [src |-> r.src, id |-> r.id, stale |-> r.id \in ended]
                  /\ ytLive' = r.id
                  /\ apc' = IF r.id = 0 THEN "invalid" ELSE "start"
    /\ UNCHANGED <<handle, focus, acause, out, astop, reads, upRecv, upSent, subscribed,
                   seenIds, seenOther, now, ended>>
    /\ UNCHANGED <<orchVars, probe>>

\* YouTubeChatClient.run up to the first poll: _live_chat_id is set, the first
\* status event, `async with httpx.AsyncClient(...)`, the loop condition
YouTubeStart ==
    /\ focus = "youtube"
    /\ apc = "start"
    /\ out' = Append(out, ConnectedEvent("youtube", AdChannel))
    /\ handle' = "open"
    /\ IF astop THEN apc' = "exit" /\ acause' = "stop"
       ELSE apc' = "recv" /\ UNCHANGED acause
    /\ UNCHANGED <<focus, astop, reads, upRecv, upSent, subscribed>>
    /\ UNCHANGED ytVars
    /\ UNCHANGED <<orchVars, probe>>

\* one iteration of the poll loop: client.get returns (or raises HTTPError), the
\* status is tested, the body is decoded, the items are parsed, the loop
\* condition is evaluated after the sleep.  response.json() raises on a body that
\* is not JSON and nothing in run() catches it.  upSent records the request of
\* each iteration.
YouTubePoll ==
    /\ focus = "youtube"
    /\ apc = "recv"
    /\ reads < MaxReads
    /\ \E response \in PollResponses :
         /\ reads' = reads + 1
         /\ upSent' = Append(upSent, PollRequest(upRecv))
         /\ upRecv' = Append(upRecv, response)
         /\ CASE response.status = 403 ->
                   /\ acause' = "quota"
                   /\ apc' = "exit"
                   /\ UNCHANGED <<out, seenIds, seenOther, ytLive, liveCache, failMark, ended>>
              [] response.status \in {404, 410} ->
                   /\ liveCache' = InvalidateLiveChatCache(CacheState).cache
                   /\ failMark' = InvalidateLiveChatCache(CacheState).mark
                   /\ ytLive' = 0
                   /\ ended' = ended \cup {ytLive}
                   /\ acause' = "gone"
                   /\ apc' = "exit"
                   /\ UNCHANGED <<out, seenIds, seenOther>>
              [] response.status = 200 ->
                   LET decoded == JsonLoads(response.body)
                       items == IF decoded.ok /\ decoded.value.t = "dict"
                                THEN Get(decoded.value, "items") ELSE JNull
                       list == IF items.t = "list" THEN items.l ELSE <<>>
                   IN  IF ~decoded.ok
                       THEN /\ acause' = "exception"
                            /\ apc' = "exit"
                            /\ UNCHANGED <<out, seenIds, seenOther, ytLive, liveCache, failMark, ended>>
                       ELSE /\ \E victims \in PopChoices(list, SeenSet) :
                                 LET o == ParseItems(AdChannel, list, SeenSet, victims)
                                 IN  /\ out' = out \o o.events
                                     /\ seenIds' = o.seen.ids
                                     /\ seenOther' = o.seen.other
                            /\ IF astop THEN apc' = "exit" /\ acause' = "stop"
                               ELSE UNCHANGED <<apc, acause>>
                            /\ UNCHANGED <<ytLive, liveCache, failMark, ended>>
              [] OTHER ->
                   /\ IF astop THEN apc' = "exit" /\ acause' = "stop"
                      ELSE UNCHANGED <<apc, acause>>
                   /\ UNCHANGED <<out, seenIds, seenOther, ytLive, liveCache, failMark, ended>>
    /\ UNCHANGED <<handle, focus, astop, subscribed, liveDb, now, resolved>>
    /\ UNCHANGED <<orchVars, probe>>

\* the same channel is subscribed again after its adapter ended or was refused: a
\* new YouTubeChatClient with a new queue and stop_event; the module-level caches
\* and the database stay
YouTubeResubscribe ==
    /\ focus = "youtube"
    /\ apc \in {"invalid", "done", "raised", "cancelled"}
    /\ apc' = "new"
    /\ acause' = "none"
    /\ out' = <<>>
    /\ astop' = FALSE
    /\ upRecv' = <<>>
    /\ upSent' = <<>>
    /\ handle' = "none"
    /\ seenIds' = {}
    /\ seenOther' = 0
    /\ ytLive' = 0
    /\ UNCHANGED <<focus, reads, subscribed, liveCache, failMark, liveDb, now,
                   resolved, ended>>
    /\ UNCHANGED <<orchVars, probe>>

\* mutant of HandleAfterExit: TwitchChatClient.run closes its writer after the
\* loop, not in a finally clause, so that only a loop left by `break` or by its
\* condition reaches the close
HandleClosedOnReturn(platform, h, cause) ==
    IF h = "open" /\ (platform # "twitch" \/ cause \in {"closed", "stop"})
    THEN "closed" ELSE h

\* the connection after run() was left by cause: the finally clause of
\* TwitchChatClient.run closes the writer if there is one; KickChatClient.run and
\* YouTubeChatClient.run hold theirs in an `async with`, which closes it however
\* the block is left
HandleAfterExit(platform, h, cause) ==
    IF h = "open" THEN "closed" ELSE h

\* the except and finally clauses of run(), then its return or raise.  The
\* finally clause of YouTubeChatClient.run invalidates the live chat cache when
\* _live_chat_id was cleared.
AdExit ==
    /\ apc = "exit"
    /\ out' = out \o ExitEvents(focus, AdChannel, acause)
    /\ apc' = ExitState(focus, acause)
    /\ handle' = HandleAfterExit(focus, handle, acause)
    /\ IF focus = "youtube" /\ ytLive = 0
       THEN /\ liveCache' = InvalidateLiveChatCache(CacheState).cache
            /\ failMark' = InvalidateLiveChatCache(CacheState).mark
       ELSE UNCHANGED <<liveCache, failMark>>
    /\ UNCHANGED <<focus, acause, astop, reads, upRecv, upSent, subscribed,
                   seenIds, seenOther, ytLive, liveDb, now, resolved, ended>>
    /\ UNCHANGED <<orchVars, probe>>

\* an adapter object has just been constructed: a Twitch or Kick adapter that
\* passed validation and whose task was created, or a YouTube adapter the handler
\* is about to validate, in a fresh process with an empty database
AdInit ==
    /\ probe = [fn |-> "none"]
    /\ OrchIdle
    /\ YtFresh
    /\ focus \in {"twitch", "kick", "youtube"}
    /\ apc = IF focus = "youtube" THEN "new" ELSE "start"
    /\ acause = "none"
    /\ out = <<>>
    /\ astop = FALSE
    /\ reads = 0
    /\ upRecv = <<>>
    /\ upSent = <<>>
    /\ subscribed = FALSE
    /\ handle = "none"

AdNext ==
    \/ AdStop
    \/ AdTimeout
    \/ AdFail
    \/ AdCancel
    \/ AdExit
    \/ KickStart
    \/ KickRecv
    \/ TwitchStart
    \/ TwitchRecv
    \/ TwitchTimeout
    \/ Tick
    \/ YouTubeEnsure
    \/ YouTubeStart
    \/ YouTubePoll
    \/ YouTubeResubscribe

AdapterSpec == AdInit /\ [][AdNext]_vars
(***************************************************************************)
(* Claims about the Pusher adapter (KickChatClient).                       *)
(***************************************************************************)
\* the positions of seq whose element satisfies Test
Positions(seq, Test(_)) == {k \in DOMAIN seq : Test(seq[k])}

IsAckFrame(raw) == FrameEvent(raw) = JStr(<<"pusher_internal:subscription_succeeded">>)

IsPingFrame(raw) == FrameEvent(raw) = JStr(<<"pusher:ping">>)

IsKickConnected(e) == e.type = "status" /\ Head(e.message) = "Connected to Kick chat for "

\* C7: over one Pusher connection, however many "subscription succeeded" frames
\* were received and wherever they stood among the other frames, exactly one
\* status(connected) event has been enqueued (and none before the first of them).
C7_OneConnectedStatus ==
    focus = "kick" =>
        Cardinality(Positions(out, IsKickConnected)) =
            (IF Positions(upRecv, IsAckFrame) = {} THEN 0 ELSE 1)

\* C7 witness: the acknowledgement was received twice, with another frame between
\* the two, and one status(connected) event is on the queue.
C7_Witness ==
    /\ focus = "kick"
    /\ Len(upRecv) = 3
    /\ IsAckFrame(upRecv[1]) /\ ~IsAckFrame(upRecv[2]) /\ IsAckFrame(upRecv[3])
    /\ Cardinality(Positions(out, IsKickConnected)) = 1

\* the pong frame Pusher expects: {"event": "pusher:pong", "data": {}}
PusherPong == JEncoded(JDict([event |-> JStr(<<"pusher:pong">>), data |-> JDict(<<>>)]))

\* C8: in the step that reads a ping frame the adapter hands exactly one frame to
\* the socket, the fixed pong payload, and enqueues no event, whether the
\* subscription was acknowledged before or not; no other frame is answered by a pong.
C8_PingAnsweredByOnePong ==
    [][ (focus = "kick" /\ Len(upRecv') = Len(upRecv) + 1)
          => IF IsPingFrame(upRecv'[Len(upRecv')])
             THEN upSent' = Append(upSent, PusherPong) /\ out' = out
             ELSE \A k \in DOMAIN upSent' : k > Len(upSent) => upSent'[k] # PusherPong
      ]_vars

\* C8 witness: a ping was read before the acknowledgement and another after it,
\* and two pongs were sent.
C8_Witness ==
    /\ focus = "kick"
    /\ Len(upRecv) = 3
    /\ IsPingFrame(upRecv[1]) /\ IsAckFrame(upRecv[2]) /\ IsPingFrame(upRecv[3])
    /\ subscribed
    /\ upSent = <<PusherPong, PusherPong>>
    /\ Cardinality(Positions(out, IsKickConnected)) = Len(out)

(***************************************************************************)
(* Claims about the three adapters.                                        *)
(***************************************************************************)
\* v is a value other than None and other than the empty str
NonEmptyText(v) == v.t # "null" /\ (v.t = "str" => v.s # <<>>)

\* C3: every chat event an adapter has enqueued has a non-empty user and a
\* non-empty message (an upstream message without one of them produced no event).
C3_ChatEventsNonEmpty ==
    \A k \in DOMAIN out :
        out[k].type = "chat" =>
            NonEmptyText(out[k].user) /\ NonEmptyText(out[k].message)

\* C5: a resolution of the live chat of a channel never returns, from the memory
\* cache or from the database row, the id of a live chat whose poll had already
\* been answered "not found" or "gone" when the resolution was made.
C5_NoStaleLiveChatAfterGone ==
    resolved.src \in {"memory", "db"} => ~resolved.stale

\* C9: when an unexpected exception has ended the loop of run() and the except and
\* finally clauses have run, the task has returned without raising and the last
\* two events on the queue are an error event and then a terminal status event.
C9_ExceptionBecomesErrorThenStatus ==
    (acause = "exception" /\ apc # "exit") =>
        /\ apc = "done"
        /\ Len(out) >= 2
        /\ out[Len(out) - 1].type = "error"
        /\ out[Len(out)].type = "status"
        /\ Head(out[Len(out)].message) \in TerminalStatusTexts

(***************************************************************************)
(* A YouTube adapter that has been polling for a long time.                *)
(***************************************************************************)
\* run() waits between two polls; _seen_message_ids has reached its bound: 5000
\* ids were polled since the adapter started, none of them an id that a response
\* of the model carries.  The live chat was
\* resolved from upstream at ClockStart.  out and upRecv start empty here: they
\* log what is enqueued and read from this state on.
DedupInit ==
    /\ probe = [fn |-> "none"]
    /\ OrchIdle
    /\ focus = "youtube"
    /\ apc = "recv"
    /\ acause = "none"
    /\ out = <<>>
    /\ astop = FALSE
    /\ reads = 0
    /\ upRecv = <<>>
    /\ upSent = <<>>
    /\ subscribed = FALSE
    /\ handle = "open"
    /\ seenIds = {}
    /\ seenOther = SeenLimit
    /\ ytLive = 1
    /\ liveCache = [k \in {"cid", "handle"} |->
                       [id |-> 1, exp |-> ClockStart + LIVE_CHAT_CACHE_TTL_SECONDS]]
    /\ failMark = -1
    /\ liveDb = [id |-> 1, exp |-> ClockStart + LIVE_CHAT_CACHE_TTL_SECONDS]
    /\ now = ClockStart
    /\ resolved = [src |-> "upstream", id |-> 1, stale |-> FALSE]
    /\ ended = {}

DedupNext ==
    \/ YouTubePoll
    \/ AdTimeout
    \/ AdStop
    \/ AdExit

DedupSpec == DedupInit /\ [][DedupNext]_vars

\* the positions of the chat events of out that carry a provider message id
ChatWithId == {k \in DOMAIN out : out[k].type = "chat" /\ "id" \in DOMAIN out[k]}

\* C6: within one adapter's lifetime no provider message id is emitted twice: an
\* item whose id was seen before (in particular in the previous batch) produces
\* no chat event.
C6_NoIdEmittedTwice ==
    \A i, j \in ChatWithId : i # j => out[i].id # out[j].id

(***************************************************************************)
(* The cache functions of youtube.py, each called once on a cache that     *)
(* earlier calls have filled.                                              *)
(***************************************************************************)
\* CHANNEL_CACHE_TTL_SECONDS = 6 * 60 * 60
CHANNEL_CACHE_TTL_SECONDS == 21600

\* mutant of GetCachedChannel: an entry is still returned at its deadline
GetCachedChannelAtDeadline(cache, key, t) ==
    IF cache[key].id # 0 /\ cache[key].exp >= t
    THEN [entry |-> cache[key], cache |-> cache]
    ELSE [entry |-> NoEntry, cache |-> [cache EXCEPT ![key] = NoEntry]]

\* _get_cached_channel(key) at time t: the entry returned (NoEntry for None) and
\* _channel_cache afterwards
GetCachedChannel(cache, key, t) ==
    IF cache[key].id # 0 /\ cache[key].exp > t
    THEN [entry |-> cache[key], cache |-> cache]
    ELSE [entry |-> NoEntry, cache |-> [cache EXCEPT ![key] = NoEntry]]

\* _load_channel_cache_db(handle) at time t: the entry built from the row of
\* YouTubeChannelCache (its expiry is now + the time the row has left) and the
\* row afterwards; an expired row is deleted
LoadChannelCacheDb(row, t) ==
    IF row = NoEntry THEN [entry |-> NoEntry, row |-> NoEntry]
    ELSE IF row.exp <= t THEN [entry |-> NoEntry, row |-> NoEntry]
    ELSE [entry |-> [id |-> row.id, exp |-> t + (row.exp - t)], row |-> row]

\* _resolve_channel_metadata_with_client(client, slug, api_key) for a handle at
\* time t on [cache, row], where fetched is the channel id the channels endpoint
\* gives (0 when it gives none): the id returned, where it came from, and
\* _channel_cache (keys: the slug, "id:<channel id>", another slug) and the row
\* afterwards
ResolveChannelMetadata(state, t, fetched) ==
    LET mem == GetCachedChannel(state.cache, "slug", t)
        db == LoadChannelCacheDb(state.row, t)
        fresh == [id |-> fetched, exp |-> t + CHANNEL_CACHE_TTL_SECONDS]
    IN  IF mem.entry # NoEntry
        THEN [id |-> mem.entry.id, src |-> "memory", cache |-> mem.cache, row |-> state.row]
        ELSE IF db.entry # NoEntry
        THEN [id |-> db.entry.id, src |-> "db",
              cache |-> [k \in DOMAIN mem.cache |->
                            IF k \in {"slug", "id"} THEN db.entry ELSE mem.cache[k]],
              row |-> db.row]
        ELSE IF fetched # 0
        THEN [id |-> fetched, src |-> "upstream",
              cache |-> [k \in DOMAIN mem.cache |->
                            IF k \in {"slug", "id"} THEN fresh ELSE mem.cache[k]],
              row |-> fresh]
        ELSE [id |-> 0, src |-> "upstream", cache |-> mem.cache, row |-> db.row]

(***************************************************************************)
(* KickBadgeResolver: the badge of a subscriber.                           *)
(***************************************************************************)
RECURSIVE PyStr(_)
\* str(n) of an int n: its decimal text
PyStr(n) ==
    LET digits == <<"0","1","2","3","4","5","6","7","8","9">>
    IN  IF n < 0 THEN <<"-">> \o PyStr(0 - n)
        ELSE IF n < 10 THEN <<digits[n + 1]>>
        ELSE PyStr(n \div 10) \o <<digits[(n % 10) + 1]>>

\* int(v) of a JSON value that is not None: ok is FALSE when it raises TypeError
\* or ValueError.  A str is stripped, may carry one sign, and holds digits only.
PyInt(v) ==
    LET digits == <<"0","1","2","3","4","5","6","7","8","9">>
        Parsed(t, d) ==
            LET val[k \in 0..Len(d)] ==
                    IF k = 0 THEN 0
                    ELSE 10 * val[k - 1] + (CHOOSE i \in 1..10 : digits[i] = d[k]) - 1
            IN  IF d = <<>> \/ \E k \in DOMAIN d : d[k] \notin Range(digits)
                THEN [ok |-> FALSE]
                ELSE [ok |-> TRUE, n |-> IF t[1] = "-" THEN 0 - val[Len(d)] ELSE val[Len(d)]]
        Signed(t) == Parsed(t, IF t # <<>> /\ t[1] \in {"+", "-"} THEN Tail(t) ELSE t)
    IN  CASE v.t = "num" -> [ok |-> TRUE, n |-> v.n]
          [] v.t = "str" -> Signed(Strip(v.s))
          [] OTHER -> [ok |-> FALSE]

\* _extract_badge_image_url(badge): the URL the raw badge carries, JNull for None
ExtractBadgeImageUrl(badge) ==
    LET Url(v) == v.t = "str" /\ v.s # <<>>
        Candidate(v) == IF Url(v) THEN v ELSE JNull
        FromImage(image) ==
            IF image.t = "dict" THEN Candidate(Or(Get(image, "src"), Get(image, "url")))
            ELSE Candidate(image)
    IN  IF Url(Get(badge, "image_url")) THEN Get(badge, "image_url")
        ELSE FromImage(Or(Get(badge, "badge_image"), Get(badge, "image")))

\* _resolve_subscriber_badge(badge) with _subscriber_badges = subscriber_badges
\* (a function from months to [image_url, title]) as _ensure_channel_badges left
\* it, and fallback_file the name of the static subscriber image (<<>> when
\* there is none): the payload, JNull for None
ResolveSubscriberBadge(badge, subscriber_badges, fallback_file) ==
    LET keys == DOMAIN subscriber_badges
        \* months: ok is FALSE for None
        Months(months_raw) == IF months_raw = JNull THEN [ok |-> FALSE] ELSE PyInt(months_raw)
        \* asset_months: months itself, else the highest key below, else the
        \* lowest key above
        AssetMonths(n) ==
            IF n \in keys THEN n
            ELSE IF \E k \in keys : k <= n
            THEN CHOOSE k \in keys : k <= n /\ \A j \in keys : j <= n => j <= k
            ELSE CHOOSE k \in keys : k >= n /\ \A j \in keys : j >= n => j >= k
        Tier(k) == [ok |-> TRUE, image_url |-> subscriber_badges[k].image_url,
                    title |-> JStr(subscriber_badges[k].title), version |-> JStr(PyStr(k))]
        FromTable(months) ==
            IF ~months.ok \/ keys = {} THEN [ok |-> FALSE] ELSE Tier(AssetMonths(months.n))
        VersionOf(months) == IF months.ok THEN JStr(PyStr(months.n)) ELSE JNull
        FromBadge(months, direct_url) ==
            IF direct_url = JNull THEN [ok |-> FALSE]
            ELSE [ok |-> TRUE, image_url |-> direct_url.s,
                  title |-> Or(Get(badge, "text"), JStr(<<"Subscriber">>)),
                  version |-> VersionOf(months)]
        FromFile(months) ==
            IF fallback_file = <<>> THEN [ok |-> FALSE]
            ELSE [ok |-> TRUE, image_url |-> <<"/static/badges/kick", "/">> \o fallback_file,
                  title |-> JStr(<<"Subscriber">>), version |-> VersionOf(months)]
        FirstOf(a, b, c) == IF a.ok THEN a ELSE IF b.ok THEN b ELSE c
        Titled(title_source, months) ==
            IF months.ok THEN title_source.s \o <<" (">> \o PyStr(months.n) \o <<" months)">>
            ELSE title_source.s
        Payload(asset, months) ==
            IF ~asset.ok THEN JNull
            ELSE [image_url |-> asset.image_url, set_id |-> <<"subscriber">>,
                  title |-> Titled(Or(Get(badge, "text"), asset.title), months)]
                 @@ (IF asset.version = JNull THEN <<>> ELSE [version |-> asset.version.s])
        Resolve(months) ==
            Payload(FirstOf(FromTable(months),
                            FromBadge(months, ExtractBadgeImageUrl(badge)),
                            FromFile(months)),
                    months)
    IN  Resolve(Months(Or(Get(badge, "count"),
                          Or(Get(badge, "months"),
                             Or(Get(badge, "quantity"),
                                Or(Get(badge, "tier"), Get(badge, "level")))))))

\* the longest raw value of a display-name tag
MaxRaw == 4

\* the calls the model makes: the function, the caches it finds, the clock
ProbeInputs ==
    LET \* the clock values at which an entry was written or a mark recorded; 0
        \* is the earliest value the clock can have
        WriteTimes == {0, 1000}
        \* what the clock has advanced by when the function is called
        Elapsed(ttl) == {0, 1, ttl - 1, ttl, ttl + 1}
        \* the entry a resolution at time w stores: expires_at = _cache_now() + ttl
        Written(id, w, ttl) == [id |-> id, exp |-> w + ttl]
        CT == CHANNEL_CACHE_TTL_SECONDS
        LT == LIVE_CHAT_CACHE_TTL_SECONDS
        FT == LIVE_CHAT_FAILURE_TTL_SECONDS
        ChannelCaches ==
            {[slug |-> a, other |-> b] :
                a \in {NoEntry} \cup {Written(1, w, CT) : w \in WriteTimes},
                b \in {NoEntry, Written(2, 1000, CT)}}
        LiveCaches ==
            {[cid |-> a, handle |-> b, other |-> c] :
                a \in {NoEntry} \cup {Written(1, w, LT) : w \in WriteTimes},
                b \in {NoEntry} \cup {Written(1, w, LT) : w \in WriteTimes},
                c \in {NoEntry, Written(2, 1000, LT)}}
        Rows == {NoEntry} \cup {Written(1, w, LT) : w \in WriteTimes}
        Marks == {-1} \cup WriteTimes
        \* the clock does not run backwards: nothing in the cache was written,
        \* and no mark recorded, after the time of the call
        NotBefore(t, cache, ttl, mark) ==
            /\ \A k \in DOMAIN cache : cache[k].id # 0 => cache[k].exp - ttl <= t
            /\ mark <= t
    IN  {p \in {[fn |-> "get_channel", cache |-> c, key |-> "slug", t |-> w + d,
                   called |-> FALSE] :
                    c \in ChannelCaches, w \in WriteTimes, d \in Elapsed(CT)} :
            NotBefore(p.t, p.cache, CT, -1)}
        \cup
        {p \in {[fn |-> "get_live", cache |-> c, t |-> w + d, called |-> FALSE] :
                    c \in LiveCaches, w \in WriteTimes, d \in Elapsed(LT)} :
            NotBefore(p.t, p.cache, LT, -1)}
        \cup
        {[fn |-> "invalidate", state |-> [cache |-> c, mark |-> m, row |-> r],
          called |-> FALSE] :
            c \in LiveCaches, m \in Marks, r \in Rows}
        \cup
        {p \in {[fn |-> "resolve", state |-> [cache |-> c, mark |-> m, row |-> NoEntry],
                   t |-> w + d, fetched |-> f, called |-> FALSE] :
                    c \in {x \in LiveCaches : x.cid = x.handle},
                    m \in Marks, w \in WriteTimes, d \in Elapsed(FT), f \in {0, 1}} :
            NotBefore(p.t, p.state.cache, LT, p.state.mark)}
        \cup
        \* resolutions that find a row of an earlier resolution in the database
        {p \in {[fn |-> "resolve", state |-> [cache |-> c, mark |-> m, row |-> r],
                   t |-> w + d, fetched |-> f, called |-> FALSE] :
                    c \in {x \in LiveCaches : x.cid = x.handle},
                    m \in Marks, r \in Rows \ {NoEntry}, w \in WriteTimes,
                    d \in Elapsed(LT), f \in {0, 2}} :
            /\ NotBefore(p.t, p.state.cache, LT, p.state.mark)
            /\ p.state.row.exp - LT <= p.t}
        \cup
        {p \in {[fn |-> "resolve_channel", state |-> [cache |-> c, row |-> r],
                   t |-> w + d, fetched |-> f, called |-> FALSE] :
                    c \in {[slug |-> a, id |-> a, other |-> b] :
                              a \in {NoEntry} \cup {Written(1, x, CT) : x \in WriteTimes},
                              b \in {NoEntry, Written(2, 1000, CT)}},
                    r \in {NoEntry} \cup {Written(1, x, CT) : x \in WriteTimes},
                    w \in WriteTimes, d \in Elapsed(CT), f \in {0, 2}} :
            /\ NotBefore(p.t, p.state.cache, CT, -1)
            /\ p.state.row.id # 0 => p.state.row.exp - CT <= p.t}
        \cup
        \* a channel as the client may write it: the handle itself or a URL of
        \* the channel page or of a page below it, with or without a query
        {[fn |-> "slug", handle |-> h, value |-> prefix \o h \o suffix, called |-> FALSE] :
            h \in {<<"@","a","b","c">>, <<"@","A","b","d">>, <<"a","b","c">>},
            prefix \in {<<>>, UrlHttpsWww, UrlHttpWww, UrlHttps, UrlHttp, UrlWww, UrlBare,
                        <<" ">>},
            suffix \in {<<>>, <<"/","l","i","v","e">>, <<"?","x","=","1">>, <<" ">>}}
        \cup
        \* a chat line with an emotes tag: spans in and out of the text, reversed,
        \* signed, not numbers, missing; one or two spans, one or two emotes
        LET Num == {<<"0">>, <<"1">>, <<"4">>, <<"5">>, <<"1","0">>, <<"-","1">>,
                    <<"+","1">>, <<"x">>, <<>>}
            Span == {a \o <<"-">> \o b : a \in Num, b \in Num}
            One == <<"2","5",":">>
            Lead == <<"2","5",":","0","-","1">>
            EmoteTags ==
                {One \o sp : sp \in Span}
                \cup {Lead \o <<",">> \o sp : sp \in Span}
                \cup {Lead \o <<"/","3","0",":">> \o sp : sp \in Span}
                \cup {Lead \o <<"/","2","5",":">> \o sp : sp \in Span}
                \cup {<<>>, <<"2","5">>, <<":","0","-","1">>, <<"2","5",":">>,
                      <<"2","5",":","0">>}
            Texts == {<<"h","e","l","l","o">>, <<"h","i">>, <<>>}
            \* a chat line with a badges tag, read by an adapter without a manifest
            \* and by one whose manifest knows mod/1 only
            BadgeTags == {<<"m","o","d","/","1",",","s","u","b","/","3">>,
                          <<"m","o","d","/","1">>, <<"s","u","b","/","3">>,
                          <<"m","o","d","/","1",",",",","s","u","b">>, <<"m","o","d">>,
                          <<"/","1">>, <<>>}
            Manifests == {{}, {[set_id |-> <<"m","o","d">>, version |-> <<"1">>,
                                title |-> <<"M","o","d","e","r","a","t","o","r">>,
                                image_url |-> <<"<url>">>]}}
            Line(tag, v, x) ==
                <<"@">> \o tag \o <<"=">> \o v \o
                <<" ",":","b","o","!","b","o","@","x"," ","P","R","I","V","M","S","G",
                  " ","#","a","b","c"," ",":">> \o x
        IN  {[fn |-> "privmsg", tag |-> TagEmotes, value |-> v, text |-> x,
              payload |-> Line(TagEmotes, v, x), cache |-> {},
              called |-> FALSE] : v \in EmoteTags, x \in Texts}
            \cup
            {[fn |-> "privmsg", tag |-> TagBadges, value |-> v, text |-> <<"h","i">>,
              payload |-> Line(TagBadges, v, <<"h","i">>), cache |-> c,
              called |-> FALSE] : v \in BadgeTags, c \in Manifests}
            \cup
            \* a display-name tag: every raw value of up to MaxRaw characters
            \* among the backslash, the letters of the escapes and a plain letter
            {[fn |-> "privmsg", tag |-> TagDisplayName, value |-> v, text |-> <<"h","i">>,
              payload |-> Line(TagDisplayName, v, <<"h","i">>), cache |-> {},
              called |-> FALSE] :
                v \in UNION {[1..k -> {"\\", "s", "n", "r", ":", "a"}] : k \in 0..MaxRaw}}
        \cup
        \* a subscriber badge of a Kick message: its count absent, zero, at, between,
        \* below and above the months of the channel's badge table, negative, a
        \* str; with and without an image of its own; a channel with no table
        LET Counts == {JNull, JNum(0), JNum(1), JNum(2), JNum(3), JNum(4), JNum(7),
                       JNum(-1), JStr(<<"3">>), JStr(<<"x">>)}
            Badge(count, image) ==
                JDict((IF count = JNull THEN [type |-> JStr(<<"subscriber">>)]
                       ELSE [type |-> JStr(<<"subscriber">>), count |-> count])
                      @@ (IF image = JNull THEN <<>> ELSE [image_url |-> image]))
            Table(months) ==
                [k \in months |-> [image_url |-> <<"<src of tier ">> \o PyStr(k) \o <<">">>,
                                    title |-> <<"Subscriber">>]]
        IN  {[fn |-> "sub_badge", badge |-> Badge(c, i), table |-> Table(m),
              file |-> f, called |-> FALSE] :
                c \in Counts, i \in {JNull, JStr(<<"<inline>">>)},
                m \in {{}, {3}, {1, 3, 6}, {2, 4}},
                f \in {<<>>, <<"subscriber.svg">>}}
            \cup
            \* a count of zero next to a months field
            {[fn |-> "sub_badge",
              badge |-> JDict([type |-> JStr(<<"subscriber">>), count |-> JNum(0),
                               months |-> JNum(3)]),
              table |-> Table({1, 3, 6}), file |-> <<>>, called |-> FALSE]}
        \cup
        \* one or two poll responses of a run: a failed poll, a page without a
        \* polling-interval hint, pages whose hint is zero, tiny, or at and just
        \* above a candidate for the longest wait (ceiling, in ms)
        LET Ceilings == {5000, 60000, 3600000}
            Page(hint) ==
                [status |-> 200,
                 body |-> JEncoded(JDict(IF hint = JNull THEN [items |-> JList(<<>>)]
                                         ELSE [items |-> JList(<<>>),
                                               pollingIntervalMillis |-> hint]))]
            Polls(c) ==
                {[status |-> 500]}
                \cup {Page(h) : h \in {JNull, JNum(0), JNum(1), JNum(c), JNum(c + 1)}}
        IN  UNION {{[fn |-> "poll", ceiling |-> c, responses |-> <<r>>,
                     called |-> FALSE] : r \in Polls(c)}
                   \cup {[fn |-> "poll", ceiling |-> c, responses |-> <<r1, r2>>,
                           called |-> FALSE] : r1 \in Polls(c), r2 \in Polls(c)} :
                   c \in Ceilings}

ProbeInit ==
    /\ AdIdle
    /\ OrchIdle
    /\ probe \in ProbeInputs

\* the call is made: ret is what the function returns, together with the caches
\* as it leaves them
ProbeCall ==
    /\ probe.fn # "none"
    /\ ~probe.called
    /\ LET ret == CASE probe.fn = "get_channel" ->
                         GetCachedChannel(probe.cache, probe.key, probe.t)
                    [] probe.fn = "get_live" ->
                         GetCachedLiveChat(probe.cache, probe.t)
                    [] probe.fn = "invalidate" ->
                         InvalidateLiveChatCache(probe.state)
                    [] probe.fn = "resolve" ->
                         ResolveLiveChatId(probe.state, probe.t, probe.fetched)
                    [] probe.fn = "resolve_channel" ->
                         ResolveChannelMetadata(probe.state, probe.t, probe.fetched)
                    [] probe.fn = "slug" ->
                         NormaliseChannelSlug(probe.value)
                    [] probe.fn = "privmsg" ->
                         ParsePrivmsg(probe.payload, probe.cache)
                    [] probe.fn = "sub_badge" ->
                         ResolveSubscriberBadge(probe.badge, probe.table, probe.file)
                    [] probe.fn = "poll" ->
                         PollRequest(probe.responses)
       IN  probe' = [fn |-> probe.fn, args |-> probe, called |-> TRUE, ret |-> ret]
    /\ UNCHANGED <<orchVars, adVars>>

ProbeSpec == ProbeInit /\ [][ProbeCall]_vars

(***************************************************************************)
(* Claims about the resolution caches.                                     *)
(***************************************************************************)
\* C18: for the channel cache and for the live chat cache, a get before the
\* deadline of the entry stored under the key returns that entry and leaves the
\* cache as it is; a get at or after the deadline returns no entry and leaves the
\* key without an entry.  (The live chat get is given the channel-id key and the
\* handle key and looks at the second only when the first gave nothing.)
C18_HitBeforeDeadlineMissAfter ==
    probe.fn \in {"get_channel", "get_live"} /\ probe.called =>
        LET cache == probe.args.cache
            t == probe.args.t
            first == IF probe.fn = "get_channel" THEN "slug" ELSE "cid"
            Live(k) == cache[k].id # 0 /\ t < cache[k].exp
            Expired(k) == cache[k].id # 0 /\ t >= cache[k].exp
        IN  /\ Live(first) => probe.ret.entry = cache[first] /\ probe.ret.cache = cache
            /\ Expired(first) => probe.ret.entry # cache[first]
                                  /\ probe.ret.cache[first] = NoEntry
            /\ probe.fn = "get_live" /\ ~Live("cid") =>
                  /\ Live("handle") => probe.ret.entry = cache["handle"]
                                        /\ probe.ret.cache["handle"] = cache["handle"]
                  /\ Expired("handle") => probe.ret.entry = NoEntry
                                           /\ probe.ret.cache["handle"] = NoEntry
            /\ probe.ret.cache["other"] = cache["other"]

\* C18 witness: a channel entry written with the channel TTL is asked for exactly
\* at its deadline: the get misses and the entry is gone.
C18_Witness ==
    /\ probe.fn = "get_channel" /\ probe.called
    /\ probe.args.cache["slug"].id # 0
    /\ probe.args.t = probe.args.cache["slug"].exp
    /\ probe.ret.entry = NoEntry
    /\ probe.ret.cache["slug"] = NoEntry

\* C19: a resolution that finds no cached live chat finds a negative mark for
\* the channel: while the mark is younger than the failure TTL the resolution
\* makes no upstream call and returns nothing, whatever the clock value at which
\* the mark was recorded; with no mark (none recorded, or invalidated) or with a
\* mark as old as the failure TTL, upstream is called.
C19_NegativeMarkSuppressesUpstream ==
    probe.fn = "resolve" /\ probe.called =>
        LET state == probe.args.state
            t == probe.args.t
            Cached(k) == state.cache[k].id # 0 /\ t < state.cache[k].exp
            marked == state.mark # -1
                      /\ t < state.mark + LIVE_CHAT_FAILURE_TTL_SECONDS
        IN  ~Cached("cid") /\ ~Cached("handle") /\ state.row = NoEntry =>
                IF marked
                THEN probe.ret.src = "negative" /\ probe.ret.id = 0
                ELSE probe.ret.src = "upstream"

\* C20: directly after invalidate_live_chat_cache(channel_id, handle) the memory
\* cache holds no entry under the channel-id key nor under the handle key, the
\* negative mark is gone, a cache read with these keys misses at every clock
\* value, however much of the TTL was left, and the entry under another key is
\* as it was.
C20_InvalidateRemovesKeyAndAliases ==
    probe.fn = "invalidate" /\ probe.called =>
        /\ probe.ret.cache["cid"] = NoEntry
        /\ probe.ret.cache["handle"] = NoEntry
        /\ probe.ret.mark = -1
        /\ \A t \in {0, 1, 1000, 1001} : GetCachedLiveChat(probe.ret.cache, t).entry = NoEntry
        /\ probe.ret.cache["other"] = probe.args.state.cache["other"]

\* C20 witness: entries with TTL left under both keys and under another key, and a
\* negative mark; after the call the two are gone and the other entry is there.
C20_Witness ==
    /\ probe.fn = "invalidate" /\ probe.called
    /\ probe.args.state.cache["cid"].exp > 1000
    /\ probe.args.state.cache["handle"].exp > 1000
    /\ probe.args.state.cache["other"].id # 0
    /\ probe.args.state.mark = 1000
    /\ probe.ret.cache["cid"] = NoEntry /\ probe.ret.cache["handle"] = NoEntry
    /\ probe.ret.mark = -1
    /\ probe.ret.cache["other"].id # 0

(***************************************************************************)
(* Claims about the poll loop of YouTubeChatClient.run.                    *)
(***************************************************************************)
\* the positions of the error events of out
ErrorEvents == {k \in DOMAIN out : out[k].type = "error"}

\* C21: a poll answered 403 is the last poll of the run: the loop is left at once
\* (run() is past its loop, not waiting for the next poll), and when run() has
\* returned it has enqueued exactly one error event, the quota error, directly
\* before the terminal status.
C21_QuotaEndsThePollLoop ==
    focus = "youtube" =>
        \A k \in DOMAIN upRecv :
            upRecv[k].status = 403 =>
                /\ k = Len(upRecv)
                /\ acause = "quota"
                /\ apc \in {"exit", "done"}
                /\ Cardinality(ErrorEvents) <= 1
                /\ apc = "done" =>
                      /\ Cardinality(ErrorEvents) = 1
                      /\ Len(out) >= 2
                      /\ out[Len(out) - 1].type = "error"
                      /\ out[Len(out) - 1].message =
                            <<"YouTube API quota exceeded or access denied">>
                      /\ out[Len(out)].type = "status"

\* C21 witness: the third poll of a run was answered 403 after two that were not,
\* and run() has returned with its one error event.
C21_Witness ==
    /\ focus = "youtube"
    /\ apc = "done"
    /\ Len(upRecv) = 3
    /\ upRecv[3].status = 403
    /\ Cardinality(ErrorEvents) = 1

\* a poll that failed for the moment: httpx.HTTPError (status 0 in the model) or
\* a status other than 200, 403, 404 and 410
TransientPoll(response) == response.status \notin {200, 403, 404, 410}

\* C22: the iteration that meets a transient failure enqueues nothing and leaves
\* run() in its loop (unless stop_event is set, which ends the loop at its
\* condition), and the request that follows carries the page token of the request
\* that failed and was preceded by a sleep of the poll interval then current:
\* 2.5 s after a first request, else the sleep that preceded the failed request.
C22_TransientPollIsRetried ==
    /\ [][ (focus = "youtube" /\ Len(upRecv') = Len(upRecv) + 1
              /\ TransientPoll(upRecv'[Len(upRecv')]))
            => /\ out' = out
               /\ IF astop THEN apc' = "exit" /\ acause' = "stop"
                  ELSE apc' = "recv" /\ acause' = "none" ]_vars
    /\ [](focus = "youtube" =>
            \A k \in 1..(Len(upSent) - 1) :
                TransientPoll(upRecv[k]) =>
                    /\ upSent[k + 1].pageToken = upSent[k].pageToken
                    /\ upSent[k + 1].slept = IF k = 1 THEN 2500 ELSE upSent[k].slept)

\* C22 witness: a page named its successor and asked for 5 s between polls, the
\* next poll failed, and the poll after that asked for the same page after 5 s.
C22_Witness ==
    /\ focus = "youtube"
    /\ Len(upSent) = 3
    /\ upRecv[1].status = 200
    /\ upRecv[2].status \in {0, 500}
    /\ upSent[2].pageToken = JStr(<<"p1">>)
    /\ upSent[3] = [pageToken |-> JStr(<<"p1">>), slept |-> 5000]
    /\ \A k \in DOMAIN out : out[k].type # "error"

(***************************************************************************)
(* Claims about the connection of an adapter.                              *)
(***************************************************************************)
\* C23: when run() has ended, by return, by an exception or by cancellation, the
\* connection it opened is not open any more: it was closed, or none was made.
C23_HandleClosedWhenTaskEnds ==
    apc \in Finished => handle # "open"

\* C23 witness: a Twitch adapter was cancelled while it waited for a line, and
\* its connection is closed.
C23_Witness ==
    /\ focus = "twitch"
    /\ acause = "cancel"
    /\ apc = "cancelled"
    /\ handle = "closed"

(***************************************************************************)
(* Claims about the events of the three adapters.                          *)
(***************************************************************************)
\* C24: every event an adapter has enqueued, of whatever type, names the
\* adapter's platform and carries a channel field equal to the adapter's
\* lowercase channel name.
C24_EventsCarryPlatformAndChannel ==
    \A k \in DOMAIN out :
        /\ "platform" \in DOMAIN out[k]
        /\ out[k].platform = focus
        /\ "channel" \in DOMAIN out[k]
        /\ out[k].channel = AdChannel

(***************************************************************************)
(* Claims about the channel name of the polling adapter.                   *)
(***************************************************************************)
\* C25: normalise_channel_slug, which gives YouTubeChatClient.channel and so the
\* channel of its events, maps a handle and every URL form of it (any scheme and
\* host prefix, a page below the channel page, a query) to one non-empty name,
\* the handle in lowercase: "abc" gives "abc".
C25_HandleFormsGiveOneChannel ==
    probe.fn = "slug" /\ probe.called =>
        /\ probe.ret # <<>>
        /\ probe.ret = Lower(probe.args.handle)

(***************************************************************************)
(* Claims about the chat records of the text-line adapter.                 *)
(***************************************************************************)
\* C26: whatever the emotes tag of a chat line, every position <<start, end>> of
\* every emote of the event built from the line lies inside the text of the
\* event: 0 <= start <= end < len(message).
C26_EmoteSpansInsideMessage ==
    probe.fn = "privmsg" /\ probe.called /\ "emotes" \in DOMAIN probe.ret =>
        \A i \in DOMAIN probe.ret.emotes :
            \A j \in DOMAIN probe.ret.emotes[i].positions :
                LET span == probe.ret.emotes[i].positions[j]
                IN  /\ 0 <= span[1]
                    /\ span[1] <= span[2]
                    /\ span[2] < Len(probe.ret.message.s)

\* C26 witness: the tag "25:0-1,0-5" on the text "hello": the span 0-5 ends at
\* len(message) and is left out, the span 0-1 is the only position of the emote.
C26_Witness ==
    /\ probe.fn = "privmsg" /\ probe.called
    /\ probe.args.tag = TagEmotes
    /\ probe.args.value = <<"2","5",":","0","-","1",",","0","-","5">>
    /\ probe.ret.message = JStr(<<"h","e","l","l","o">>)
    /\ probe.ret.emotes = <<[id |-> <<"2","5">>, name |-> <<"h","e">>,
                             positions |-> << <<0, 1>> >>]>>

\* the name/version entries of a badges tag: its tokens that have both parts
BadgeEntries(value) ==
    SelectSeq(Split(value, <<",">>),
              LAMBDA token : LET cut == Partition(token, <<"/">>)
                             IN  cut[1] # <<>> /\ cut[3] # <<>>)

\* str.title() of a one-word name: "mod" gives "Mod"
TitleCased(name) ==
    [k \in 1..Len(name) |->
        IF k = 1 /\ \E i \in 1..26 : LowerCase[i] = name[k]
        THEN UpperCase[CHOOSE i \in 1..26 : LowerCase[i] = name[k]]
        ELSE LowerChar(name[k])]

\* C27: a chat line with a badges tag always yields its chat event, and the
\* event carries one badge for every name/version entry of the tag: the manifest
\* entry where there is one, else a stand-in whose label is the title-cased
\* name, so that "mod/1,sub/3" without a manifest gives "Mod" and "Sub".
C27_BadgesFallBackToTitleCase ==
    probe.fn = "privmsg" /\ probe.called /\ probe.args.tag = TagBadges =>
        LET entries == BadgeEntries(probe.args.value)
            badges == IF "badges" \in DOMAIN probe.ret THEN probe.ret.badges ELSE <<>>
        IN  /\ probe.ret.type = "chat"
            /\ probe.ret.message = JStr(probe.args.text)
            /\ Len(badges) = Len(entries)
            /\ \A k \in DOMAIN badges :
                  LET cut == Partition(entries[k], <<"/">>)
                      known == \E b \in probe.args.cache :
                                  b.set_id = cut[1] /\ b.version = cut[3]
                  IN  IF known THEN badges[k] \in probe.args.cache
                      ELSE badges[k].title = TitleCased(cut[1])

(***************************************************************************)
(* Claims about the order of events on one connection.                     *)
(***************************************************************************)
IsChatFrame(raw) == FrameEvent(raw) = JStr(<<"App\\Events\\ChatMessageEvent">>)

\* C28: on a Pusher connection every chat event on the queue comes after the
\* status(connected) event, and by the time a chat event is enqueued the
\* subscribe frame has been sent.
C28_ConnectedPrecedesChat ==
    focus = "kick" =>
        \A k \in DOMAIN out :
            out[k].type = "chat" =>
                /\ \E j \in 1..(k - 1) : IsKickConnected(out[j])
                /\ \E i \in DOMAIN upSent : upSent[i] = SubscribePayload

\* C29: when the connection of a Twitch or Kick adapter was closed by the peer
\* while run() waited for upstream and run() has ended, the last two events on
\* the queue are an error event and then the terminal status event, and the
\* adapter has not connected again: its one connection is closed.
C29_DropGivesErrorThenStatus ==
    (focus \in {"twitch", "kick"} /\ acause = "closed" /\ apc \in Finished) =>
        /\ Len(out) >= 2
        /\ out[Len(out) - 1].type = "error"
        /\ out[Len(out)].type = "status"
        /\ Head(out[Len(out)].message) \in TerminalStatusTexts
        /\ handle = "closed"

(***************************************************************************)
(* Claims about malformed input from upstream.                             *)
(***************************************************************************)
\* a Pusher frame that is no JSON text
UndecodableFrame(raw) == ~JsonLoads(raw).ok

\* a Pusher frame that is JSON but no object
NonObjectFrame(raw) == JsonLoads(raw).ok /\ JsonLoads(raw).value.t # "dict"

\* a chat frame whose data is neither an object nor the JSON text of one
BrokenChatFrame(raw) ==
    /\ IsChatFrame(raw)
    /\ LET data == Get(DecodePusherPayload(raw), "data")
       IN  IF data.t = "str"
           THEN ~JsonLoads(data).ok \/ JsonLoads(data).value.t # "dict"
           ELSE data.t # "dict"

\* a poll response with status 200 whose body is no JSON text
BrokenPollBody(response) == response.status = 200 /\ ~JsonLoads(response.body).ok

\* what was read from upstream in this step is malformed
MalformedUnit(unit) ==
    CASE focus = "kick" ->
            UndecodableFrame(unit) \/ NonObjectFrame(unit) \/ BrokenChatFrame(unit)
      [] focus = "youtube" -> BrokenPollBody(unit)
      [] OTHER -> FALSE

\* C30: the step that reads a malformed unit (a Pusher frame that is no JSON or
\* no object, a chat frame whose data cannot be read, a poll answered 200 with a
\* body that is no JSON) enqueues nothing and leaves run() in its loop, waiting
\* for the next unit, unless stop_event ends the loop at its condition.
C30_MalformedUnitIsDropped ==
    [][ (Len(upRecv') = Len(upRecv) + 1 /\ MalformedUnit(upRecv'[Len(upRecv')]))
          => /\ out' = out
             /\ IF astop THEN apc' = "exit" /\ acause' = "stop"
                ELSE apc' = "recv" /\ acause' = "none"
      ]_vars

(***************************************************************************)
(* Claims about the validation loops and the end of the handler.           *)
(***************************************************************************)
\* C31: once the validation of a subscribe request from a connected client is
\* over, whatever way a lookup failed, every named channel was validated, each is
\* either a valid client or one recorded error, the recorded errors were sent
\* one each, and one adapter task exists per valid client.
C31_FailureStaysWithItsChannel ==
    (Flatten(chans) # <<>> /\ client = "open" /\ hpc \in {"await", "gather", "done"}) =>
        /\ vidx = Len(Flatten(chans))
        /\ Len(clients) + Len(errors) = Len(Flatten(chans))
        /\ Len(wsSent) >= Len(errors)
        /\ SubSeq(wsSent, 1, Len(errors)) = errors
        /\ Len(listeners) = Len(clients)

\* the adapter tasks of the session that have the platform and channel of task k
SamePair(k) ==
    {m \in DOMAIN listeners :
        <<listeners[m].platform, listeners[m].channel>> =
            <<listeners[k].platform, listeners[k].channel>>}

\* the forwarder has terminated in a session whose adapters all finished, with the
\* client connected
ForwarderOverAfterAdapters ==
    /\ fpc = "done"
    /\ cpc = "done"
    /\ client = "open"

\* C32: with the client connected, every event taken off the queue is sent, the
\* queue otherwise only grows at its tail, and when the forwarder has terminated
\* after all adapters finished the queue is empty, nothing is enqueued any more,
\* and the client has received every chat event and the final status of every
\* adapter task.
C32_NothingUndeliveredAtForwarderExit ==
    /\ [][ /\ (client = "open" /\ queue' # queue) =>
                 \/ /\ queue # <<>> /\ queue' = Tail(queue)
                    /\ wsSent' = Append(wsSent, Head(queue))
                 \/ /\ Len(queue') > Len(queue)
                    /\ SubSeq(queue', 1, Len(queue)) = queue
                    /\ wsSent' = wsSent
           /\ ForwarderOverAfterAdapters => queue' = queue
         ]_vars
    /\ [](ForwarderOverAfterAdapters =>
            /\ queue = <<>>
            /\ \A k \in DOMAIN listeners :
                  /\ listeners[k].st \in Finished
                  /\ Cardinality({j \in SentBy(k) : wsSent[j].type = "chat"}) >=
                        listeners[k].chats
                  /\ OnlyTaskOfItsChannel(k) =>
                        Cardinality({j \in SentBy(k) : wsSent[j].type = "chat"}) =
                            listeners[k].chats
                  /\ Cardinality({j \in SentBy(k) :
                        /\ wsSent[j].type = "status"
                        /\ Head(wsSent[j].message) \in
                              {"Disconnected from Twitch chat for ",
                               "Disconnected from Kick chat for ",
                               "Disconnected from YouTube chat for "}})
                        = Cardinality(SamePair(k)))

\* C32 witness: the forwarder has terminated after two adapter tasks finished, one
\* of them having enqueued a chat event, and the last event the client received
\* is a final status.
C32_Witness ==
    /\ ForwarderOverAfterAdapters
    /\ Len(listeners) = 2
    /\ \E k \in DOMAIN listeners : listeners[k].chats = MaxChat
    /\ wsSent[Len(wsSent)].type = "status"
    /\ Len(wsSent) >= Len(errors) + 5

\* C33: when the handler has returned, by whatever path, the stop signal is set,
\* every adapter task has completed, raised or been cancelled, and the forwarder
\* and the completion task, if created, have ended; and the tasks exist together:
\* the forwarder and the completion task are created with the adapter tasks.
C33_NoTaskOutlivesTheHandler ==
    /\ hpc = "done" =>
          /\ stop
          /\ \A k \in DOMAIN listeners : listeners[k].st \in Finished
          /\ fpc \in {"none", "done", "disconnected"}
          /\ cpc \in {"none", "done", "cancelled"}
    /\ (listeners = <<>>) <=> (fpc = "none")
    /\ (fpc = "none") <=> (cpc = "none")

\* C33 witness: the handler has returned after the client disconnected while two
\* adapter tasks were alive: the forwarder ended by the disconnect, an adapter
\* task and the completion task were cancelled.
C33_Witness ==
    /\ hpc = "done"
    /\ fpc = "disconnected"
    /\ cpc = "cancelled"
    /\ Len(listeners) = 2
    /\ \E k \in DOMAIN listeners : listeners[k].st = "cancelled"

(***************************************************************************)
(* Claims about TwitchChatClient.run.                                      *)
(***************************************************************************)
\* run() of the Twitch adapter failed before its login got through: in
\* open_connection or while writing a login line
TwitchStartFailed ==
    /\ focus = "twitch"
    /\ acause = "exception"
    /\ upSent = <<>>

\* C34: when the Twitch adapter has ended after a failure to connect or to log
\* in, it has enqueued exactly one error event followed by the status
\* "Disconnected from Twitch chat" and nothing else, its connection is not left
\* open; and a run never goes back to connecting: a connection is opened only by
\* the first step of run(), and a run that has left that step or has ended stays so.
C34_ConnectFailureErrorThenStatus ==
    /\ []((TwitchStartFailed /\ apc \in Finished) =>
            /\ apc = "done"
            /\ Len(out) = 2
            /\ out[1].type = "error"
            /\ out[1].platform = "twitch"
            /\ out[2] = TwitchEvent("status", "Disconnected from Twitch chat for ", AdChannel)
            /\ reads = 0
            /\ handle \in {"none", "closed"})
    /\ [][ focus = "twitch" =>
             /\ (handle' = "open" /\ handle # "open") => (handle = "none" /\ apc = "start")
             /\ apc # "start" => apc' # "start"
             /\ apc \in Finished => UNCHANGED <<apc, out, handle, upSent>>
         ]_vars

\* C34 witness: open_connection succeeded, a login line could not be written, and
\* the adapter has ended with its connection closed.
C34_Witness ==
    /\ TwitchStartFailed
    /\ apc = "done"
    /\ handle = "closed"
    /\ Len(out) = 2

\* the line is a keepalive probe of the server: "PING" and its token
IsProbe(raw) == StartsWith(Strip(raw), TextPing)

\* the token of a probe: what follows the command word
ProbeToken(raw) == SubSeq(Strip(raw), Len(TextPing) + 1, Len(Strip(raw)))

\* C35: every step in which the Twitch adapter reads a keepalive probe, and the
\* connection takes the reply, hands the connection exactly one line, "PONG"
\* followed by the token of the probe as it was received, and enqueues no event.
C35_ProbeAnsweredWithItsToken ==
    [][ ( /\ focus = "twitch"
          /\ Len(upRecv') = Len(upRecv) + 1
          /\ IsProbe(upRecv'[Len(upRecv')])
          /\ acause' # "exception" )
        => /\ upSent' = Append(upSent,
                               WrittenLine(TextPong \o ProbeToken(upRecv'[Len(upRecv')])))
           /\ out' = out
      ]_vars

(***************************************************************************)
(* Claims about the poll loop of YouTubeChatClient.run.                    *)
(***************************************************************************)
\* the shortest wait between two polls, in ms: max(1.0, ...) of run()
ShortestWait == 1000

\* C36: after any one or two poll responses, whatever polling-interval hint they
\* carry, the time run() sleeps before the next poll is at least the shortest
\* wait and at most the ceiling, for each candidate ceiling.
C36_WaitWithinFixedRange ==
    (probe.fn = "poll" /\ probe.called) =>
        /\ probe.ret.slept >= ShortestWait
        /\ probe.ret.slept <= probe.args.ceiling

\* the provider message ids (their numbers) that a poll response hands to
\* _parse_message
BatchIds(response) ==
    IF response.status # 200 \/ ~JsonLoads(response.body).ok THEN {}
    ELSE LET payload == JsonLoads(response.body).value
             items == IF payload.t = "dict" THEN Get(payload, "items") ELSE JNull
         IN  IF items.t # "list" THEN {}
             ELSE {Get(items.l[k], "id").n :
                     k \in {j \in DOMAIN items.l :
                              items.l[j].t = "dict" /\ Get(items.l[j], "id").t = "str"}}

\* C37: when _seen_message_ids is at its bound and a poll brings ids it does not
\* hold, the set is at its bound again after the poll (one id evicted per id
\* recorded), and the ids evicted are among the oldest: the ids just recorded and
\* the ids recorded by the polls before stay in the set.
C37_OldestIdIsEvicted ==
    [][ ( /\ focus = "youtube"
          /\ Len(upRecv') = Len(upRecv) + 1
          /\ Cardinality(seenIds) + seenOther = SeenLimit
          /\ seenOther >= Cardinality(BatchIds(upRecv'[Len(upRecv')]))
          /\ BatchIds(upRecv'[Len(upRecv')]) \ seenIds # {} )
        => /\ Cardinality(seenIds') + seenOther' = SeenLimit
           /\ (seenIds \cup BatchIds(upRecv'[Len(upRecv')])) \subseteq seenIds'
      ]_vars

(***************************************************************************)
(* Claims about the two resolutions of youtube.py and their caches.        *)
(***************************************************************************)
\* the memory keys a resolution reads and writes, and the TTL of what it stores
ResolutionKeys(fn) == IF fn = "resolve" THEN {"cid", "handle"} ELSE {"slug", "id"}

ResolutionTtl(fn) ==
    IF fn = "resolve" THEN LIVE_CHAT_CACHE_TTL_SECONDS ELSE CHANNEL_CACHE_TTL_SECONDS

\* C38: a channel or live chat resolution that finds a live memory entry returns
\* it and touches neither the database row nor upstream; on a memory miss a live
\* row is returned, it is stored in memory under both keys with an expiry that is
\* in the future and not later than the row's, and upstream is not called; only
\* when both miss is upstream called, and what it gives is stored in memory under
\* both keys and in the row, both with a whole TTL.
C38_MemoryThenStoreThenUpstream ==
    (probe.fn \in {"resolve", "resolve_channel"} /\ probe.called) =>
        LET state == probe.args.state
            t == probe.args.t
            keys == ResolutionKeys(probe.fn)
            ttl == ResolutionTtl(probe.fn)
            MemHit == \E k \in keys : state.cache[k].id # 0 /\ t < state.cache[k].exp
            RowHit == state.row.id # 0 /\ t < state.row.exp
        IN  /\ MemHit =>
                  /\ probe.ret.src = "memory"
                  /\ \E k \in keys : probe.ret.id = state.cache[k].id
                  /\ probe.ret.row = state.row
            /\ (~MemHit /\ RowHit) =>
                  /\ probe.ret.src = "db"
                  /\ probe.ret.id = state.row.id
                  /\ probe.ret.row = state.row
                  /\ \A k \in keys :
                        /\ probe.ret.cache[k].id = state.row.id
                        /\ probe.ret.cache[k].exp <= state.row.exp
                        /\ probe.ret.cache[k].exp > t
            /\ probe.ret.src \in {"upstream", "negative"} => (~MemHit /\ ~RowHit)
            /\ (probe.ret.src = "upstream" /\ probe.ret.id # 0) =>
                  /\ probe.ret.id = probe.args.fetched
                  /\ \A k \in keys :
                        probe.ret.cache[k] = [id |-> probe.ret.id, exp |-> t + ttl]
                  /\ probe.ret.row = [id |-> probe.ret.id, exp |-> t + ttl]
            /\ probe.ret.cache["other"] = state.cache["other"]

\* C38 witness: a live chat resolution with nothing in memory finds a row that
\* has one second left, and promotes it into memory with that second.
C38_Witness ==
    /\ probe.fn = "resolve" /\ probe.called
    /\ probe.args.state.cache["cid"] = NoEntry
    /\ probe.args.state.cache["handle"] = NoEntry
    /\ probe.args.state.row.exp = probe.args.t + 1
    /\ probe.args.fetched # 0
    /\ probe.ret.src = "db"
    /\ probe.ret.cache["cid"].exp = probe.args.t + 1

(***************************************************************************)
(* Claims about the subscriber badge of a Kick message.                    *)
(***************************************************************************)
\* the tier of a non-empty table for a month count m: m itself if it is a tier,
\* else the highest tier below m, else the lowest tier above m
NearestTier(tiers, m) ==
    IF m \in tiers THEN m
    ELSE IF \E k \in tiers : k <= m
    THEN CHOOSE k \in tiers : k <= m /\ \A j \in tiers : j <= m => j <= k
    ELSE CHOOSE k \in tiers : k >= m /\ \A j \in tiers : j >= m => j >= k

\* C39: for a subscriber badge whose count is a number m and a channel with a
\* non-empty badge table, the badge emitted has the image of the nearest tier of
\* the table for m and that tier as its version.
C39_NearestTierIsSelected ==
    ( /\ probe.fn = "sub_badge" /\ probe.called
      /\ DOMAIN probe.args.table # {}
      /\ Get(probe.args.badge, "count").t = "num" )
    => LET tier == NearestTier(DOMAIN probe.args.table, Get(probe.args.badge, "count").n)
       IN  /\ probe.ret # JNull
           /\ probe.ret.image_url = probe.args.table[tier].image_url
           /\ "version" \in DOMAIN probe.ret
           /\ probe.ret.version = PyStr(tier)

(***************************************************************************)
(* Claims about the decoding of a tag value.                               *)
(***************************************************************************)
RECURSIVE SinglePass(_)
\* one pass over a raw tag value from the left: a backslash followed by s, n,
\* r, : or a backslash stands for one character; whatever an escape produces is
\* not read again
SinglePass(raw) ==
    LET Decoded(c) ==
            CASE c = "s" -> " " [] c = "n" -> "\n" [] c = "r" -> "\r"
              [] c = ":" -> ";" [] c = "\\" -> "\\"
    IN  IF raw = <<>> THEN <<>>
        ELSE IF raw[1] = "\\" /\ Len(raw) >= 2 /\ raw[2] \in {"s", "n", "r", ":", "\\"}
        THEN <<Decoded(raw[2])>> \o SinglePass(SubSeq(raw, 3, Len(raw)))
        ELSE <<raw[1]>> \o SinglePass(Tail(raw))

\* C40: the author name taken from the display-name tag of a chat line is the
\* raw tag value decoded in a single pass from the left (the name of the prefix
\* when the tag is empty).
C40_DecodedInOnePass ==
    (probe.fn = "privmsg" /\ probe.called /\ probe.args.tag = TagDisplayName)
    => probe.ret.user = (IF probe.args.value = <<>> THEN JStr(<<"b","o">>)
                         ELSE JStr(SinglePass(probe.args.value)))

====
